---- MODULE Spec2Model ----
(***************************************************************************)
(* Verification model of defaultconf: the candidate-gateway State          *)
(* (common.py), the ranking of candidates (DefaultConf.get_defaults), the  *)
(* NetTables mirror (bsdnetlink.py) and the reconciliation pass            *)
(* (daemon.py: default_test, normalize_default, monitor).                  *)
(*                                                                         *)
(* Python values are modelled as follows.                                  *)
(*   None                 the string "None" where a string is expected,    *)
(*                        the record Null where a tuple is expected        *)
(*   namedtuple           a record with the tuple's field names            *)
(*   ipaddress address    [af, bits]: the family and the address bits,     *)
(*                        most significant first                           *)
(*   ipaddress network    [af, prefix]: the family and the leading bits    *)
(*                        of the network; its length is the prefix length  *)
(*   a raised exception   the name of the exception class                  *)
(***************************************************************************)
EXTENDS Integers, Sequences, FiniteSets, TLC

VARIABLES
    gateways,   \* State.gateways: set of Gateway
    disabled,   \* State.disabled: set of GatewaySelect
    priority,   \* Config.priority: sequence of GatewaySelect
    now,        \* the value time.time() returned last
    added,      \* history: the last add of every (af, link, protocol)
    links,      \* NetTables.links: dict index -> LinkAddresses(link, addrs)
    routes,     \* NetTables.routes: set of Route
    lastOp,     \* the last State operation and its arguments
    query,      \* the last get_defaults call on the current State and its result
    passes,     \* the reconciliation passes run since NetTables last changed
    finish_ev,        \* daemon: finish_ev is set
    trigger_ev,       \* daemon: value of the semaphore of trigger_ev
    state_reload_ev,  \* daemon: value of the semaphore of state_reload_ev
    pc,               \* where each thread of the daemon stands
    nlmsg_q,          \* maintain_nettables: the queue monitor_nl fills
    file,             \* the State the state file holds
    reloaded,         \* history: what reload_state read last, and whether a
                      \* pass ran since
    sigs,             \* history: the signals delivered
    trig,             \* history: releases and acquires of trigger_ev
    run,              \* history: the last pass of monitor
    snapshot,         \* the result a NetTables query returned, as its holder
                      \* reads it now, and as it read when it was returned
    lock,             \* the process that holds the lock of the state file
    cli,              \* where each command-line process stands in State.update
    pid_path          \* what the pid file holds

vars == <<gateways, disabled, priority, now, added, links, routes, lastOp, query,
          passes, finish_ev, trigger_ev, state_reload_ev, pc, nlmsg_q, file,
          reloaded, sigs, trig, run, snapshot, lock, cli, pid_path>>

workerVars == <<finish_ev, trigger_ev, state_reload_ev, pc, nlmsg_q, file,
                reloaded, sigs, trig, run>>

cliVars == <<lock, cli, pid_path>>

None == "None"
Null == [none |-> TRUE]

----------------------------------------------------------------------------
(* Bounds of the model *)

MaxAdds == 2        \* Gateways a State built by add calls holds at most
MaxTime == 1        \* largest clock value
MaxDisabled == 2    \* disable patterns a State holds at most
MaxGateways == 2    \* Gateways in a State read from the state file
MaxRoutes == 2      \* routes NetTables holds at most
MaxPasses == 2      \* passes recorded between two NetTables changes
MaxSignals == 1     \* SIGUSR1 deliveries
MaxQueue == 1       \* messages nlmsg_q holds at most

----------------------------------------------------------------------------
(* Value domains the inputs are drawn from *)

AF == {"INET", "INET6"}
LinkNames == {"em0", "em1"}
Protocols == {"static", "dhcp"}
LinkIndexes == {1, 2}

Addr(af, bits) == [af |-> af, bits |-> bits]
Net(af, prefix) == [af |-> af, prefix |-> prefix]

A1 == Addr("INET", <<0, 1>>)     \* stands for 10.0.0.1
A2 == Addr("INET", <<1, 1>>)     \* stands for 10.0.1.1
B1 == Addr("INET6", <<0, 1>>)    \* an IPv6 next hop
GatewayAddrs == {A1, A2, B1}

\* socket family of an address, as ipaddress.ip_address gives it
AddrsOf(af) == {a \in GatewayAddrs : a.af = af}

Gateway(af, link, protocol, addr, ts) ==
    [af |-> af, link |-> link, protocol |-> protocol, addr |-> addr, ts |-> ts]

GatewaySelect(af, link, protocol) ==
    [af |-> af, link |-> link, protocol |-> protocol]

\* the patterns the operator hands to disable, enable and priority
Selects ==
    { GatewaySelect(None, None, None),
      GatewaySelect(None, "em0", None),
      GatewaySelect(None, None, "dhcp"),
      GatewaySelect(None, None, "static"),
      GatewaySelect("INET", None, None),
      GatewaySelect("INET", "em0", "dhcp") }

----------------------------------------------------------------------------
(* common.py: GatewaySelect, State *)

\* GatewaySelect.matches
matches(select, o) ==
    /\ (select.af # None => select.af = o.af)
    /\ (select.link # None => select.link = o.link)
    /\ (select.protocol # None => select.protocol = o.protocol)

\* State.remove: the gateways left after removing every match of select
remove_keepall(gws, select) == gws
remove(gws, select) == gws \ {g \in gws : matches(select, g)}

\* State.add: remove the look-alikes, then insert the new Gateway
add(gws, af, link, protocol, addr, ts) ==
    remove(gws, GatewaySelect(af, link, protocol))
        \cup {Gateway(af, link, protocol, addr, ts)}

\* State.disable
disable(dis, select) == dis \cup {select}

\* State.enable: removes every disabled pattern that select matches
enable_keep(dis, select) == dis
enable(dis, select) == dis \ {d \in dis : matches(select, d)}

----------------------------------------------------------------------------
(* common.py: DefaultConf.get_defaults *)

\* default_sort_strategy
default_sort_strategy(e) == e.ts

\* enabled_filter, the closure of get_defaults
enabled_filter_all(dis, e) == dis = {} \/ \E d \in dis : ~ matches(d, e)
enabled_filter(dis, e) == \A d \in dis : ~ matches(d, e)

\* index (from 1) of the bucket get_defaults puts a candidate in: the first
\* priority that matches it, or the extra last bucket
bucket_of_last(prio, default) ==
    LET hits == {i \in 1..Len(prio) : matches(prio[i], default)}
    IN  IF hits = {} THEN Len(prio) + 1
        ELSE CHOOSE i \in hits : \A j \in hits : j <= i
bucket_of(prio, default) ==
    LET hits == {i \in 1..Len(prio) : matches(prio[i], default)}
    IN  IF hits = {} THEN Len(prio) + 1
        ELSE CHOOSE i \in hits : \A j \in hits : i <= j

\* the orders sorted(bucket, key=sort_strategy, reverse=True) can return: the
\* sort is stable and the bucket was filled in the iteration order of a set,
\* so candidates of equal key come out in any order
sorted_forward(bucket) ==
    LET n == Cardinality(bucket)
    IN  {s \in [1..n -> bucket] :
            /\ \A i, j \in 1..n : i # j => s[i] # s[j]
            /\ \A i, j \in 1..n :
                   i < j => default_sort_strategy(s[i]) <= default_sort_strategy(s[j])}
sorted_reverse(bucket) ==
    LET n == Cardinality(bucket)
    IN  {s \in [1..n -> bucket] :
            /\ \A i, j \in 1..n : i # j => s[i] # s[j]
            /\ \A i, j \in 1..n :
                   i < j => default_sort_strategy(s[i]) >= default_sort_strategy(s[j])}

\* defaults.extend(...) over the buckets i, i+1, ..
RECURSIVE extend_buckets_nolast(_, _, _)
extend_buckets_nolast(prio, defaults, i) ==
    IF i > Len(prio) THEN {<<>>}
    ELSE LET bucket == {d \in defaults : bucket_of(prio, d) = i}
         IN  {head \o tail : head \in sorted_reverse(bucket),
                             tail \in extend_buckets_nolast(prio, defaults, i + 1)}
RECURSIVE extend_buckets(_, _, _)
extend_buckets(prio, defaults, i) ==
    IF i > Len(prio) + 1 THEN {<<>>}
    ELSE LET bucket == {d \in defaults : bucket_of(prio, d) = i}
         IN  {head \o tail : head \in sorted_reverse(bucket),
                             tail \in extend_buckets(prio, defaults, i + 1)}

\* DefaultConf.get_defaults: the set of lists the call can return
get_defaults(gws, dis, prio, select) ==
    extend_buckets(prio,
                   {g \in gws : matches(select, g) /\ enabled_filter(dis, g)},
                   1)

Range(s) == {s[i] : i \in DOMAIN s}

----------------------------------------------------------------------------
(* State operations as the command line issues them *)

NoOp == [op |-> "none"]
NoQuery == [select |-> GatewaySelect(None, None, None), defaults |-> <<>>,
            done |-> FALSE]

Triple(g) == [af |-> g.af, link |-> g.link, protocol |-> g.protocol]

UnchangedTables ==
    /\ UNCHANGED <<links, routes, passes, snapshot>>
    /\ UNCHANGED workerVars
    /\ UNCHANGED cliVars

\* state.add(af, link, protocol, addr); time.time() returns a value that is
\* no smaller than the one it returned before
Add ==
    \E af \in AF, link \in LinkNames, protocol \in Protocols :
      \E addr \in AddrsOf(af), ts \in now..MaxTime :
        /\ Cardinality(add(gateways, af, link, protocol, addr, ts)) <= MaxAdds
        /\ now' = ts
        /\ gateways' = add(gateways, af, link, protocol, addr, ts)
        /\ added' = {a \in added : Triple(a) # GatewaySelect(af, link, protocol)}
                        \cup {[af |-> af, link |-> link, protocol |-> protocol,
                               addr |-> addr]}
        /\ lastOp' = [op |-> "add", af |-> af, link |-> link,
                      protocol |-> protocol, addr |-> addr,
                      replaced |-> {g.addr : g \in {h \in gateways :
                                       Triple(h) = GatewaySelect(af, link, protocol)}}]
        /\ query' = NoQuery
        /\ UNCHANGED <<disabled, priority>>
        /\ UnchangedTables

\* state.disable(select)
Disable ==
    \E select \in Selects :
        /\ Cardinality(disable(disabled, select)) <= MaxDisabled
        /\ disabled' = disable(disabled, select)
        /\ lastOp' = [op |-> "disable", select |-> select]
        /\ query' = NoQuery
        /\ UNCHANGED <<gateways, priority, now, added>>
        /\ UnchangedTables

\* state.enable(select)
Enable ==
    \E select \in Selects :
        /\ disabled' = enable(disabled, select)
        /\ lastOp' = [op |-> "enable", select |-> select, before |-> disabled]
        /\ query' = NoQuery
        /\ UNCHANGED <<gateways, priority, now, added>>
        /\ UnchangedTables

\* the selects get_defaults is called with: GatewaySelect(af=af) by
\* normalize_default, any pattern by the command line
Queries ==
    { GatewaySelect("INET", None, None),
      GatewaySelect("INET6", None, None),
      GatewaySelect(None, None, None) }

\* defaultconf.get_defaults(select) on the current State
GetDefaults ==
    \E select \in Queries :
      \E defaults \in get_defaults(gateways, disabled, priority, select) :
        /\ query' = [select |-> select, defaults |-> defaults, done |-> TRUE]
        /\ UNCHANGED <<gateways, disabled, priority, now, added, lastOp>>
        /\ UnchangedTables

\* Config.priority as the configuration file gives it
Priorities ==
    { <<>>,
      <<GatewaySelect(None, None, "static"), GatewaySelect(None, None, "dhcp")>>,
      <<GatewaySelect(None, None, "dhcp"), GatewaySelect(None, "em1", None)>> }

\* Gateways a state file holds
G1 == Gateway("INET", "em0", "dhcp", A1, 2)
G2 == Gateway("INET", "em1", "static", A2, 1)
G3 == Gateway("INET", "em1", "dhcp", A2, 1)
G4 == Gateway("INET6", "em0", "static", B1, 1)
Candidates == {G1, G2, G3, G4}

\* State.from_path: the Gateway sets read from the state file
StoredGateways == {S \in SUBSET Candidates : Cardinality(S) <= MaxGateways}

EmptyDict == [i \in {} |-> None]

InitTables ==
    /\ links = EmptyDict
    /\ routes = {}
    /\ passes = <<>>

\* the threads of the daemon that take steps; the two finish.wait tasks only
\* return once finish_ev is set
Threads ==
    { "daemon", "state_reload_handler", "maintain_nettables", "monitor_nl",
      "nlmsg_handler", "monitor" }

NoRun == [ran |-> FALSE]

\* no NetTables query has returned a result that is still held
NoSnapshot == [taken |-> FALSE]

\* the command-line processes that call State.update
Procs == {"p1", "p2"}

\* no command-line process runs, nothing holds the lock of the state file, the
\* pid file names the daemon
NoCli ==
    /\ lock = None
    /\ cli = [p \in Procs |-> [pc |-> "idle"]]
    /\ pid_path = "daemon"

\* no daemon runs
NotStarted ==
    /\ snapshot = NoSnapshot
    /\ NoCli
    /\ finish_ev = FALSE
    /\ trigger_ev = 0
    /\ state_reload_ev = 0
    /\ pc = [t \in Threads |-> "idle"]
    /\ nlmsg_q = <<>>
    /\ file = [gateways |-> gateways, disabled |-> disabled]
    /\ reloaded = [content |-> file, passed |-> FALSE]
    /\ sigs = [usr1 |-> 0, term |-> FALSE]
    /\ trig = [rel |-> 0, acq |-> 0]
    /\ run = NoRun

\* State(): the add calls start from the empty State
InitAdd ==
    /\ gateways = {}
    /\ disabled = {}
    /\ priority = <<>>
    /\ now = 0
    /\ added = {}
    /\ lastOp = NoOp
    /\ query = NoQuery
    /\ InitTables
    /\ NotStarted

NextAdd == Add

SpecAdd == InitAdd /\ [][NextAdd]_vars

\* the State read from the state file, the Config from the configuration file
InitState ==
    /\ gateways \in StoredGateways
    /\ disabled = {}
    /\ priority \in Priorities
    /\ now = 0
    /\ added = {}
    /\ lastOp = NoOp
    /\ query = NoQuery
    /\ InitTables
    /\ NotStarted

NextState == Disable \/ Enable \/ GetDefaults

SpecState == InitState /\ [][NextState]_vars

----------------------------------------------------------------------------
(* bsdnetlink.py: Link, LinkAddress, Route, NetTables *)

Link(name, index, up) == [name |-> name, index |-> index, up |-> up]

\* NetTables.LinkAddresses
LinkAddresses(link, addrs) == [link |-> link, addrs |-> addrs]

\* ipaddress.ip_interface((addr, prefixlen))
Interface(af, bits, prefixlen) == [af |-> af, bits |-> bits, prefixlen |-> prefixlen]

\* LinkAddress; local is None when the kernel sent no IFA_LOCAL
LinkAddress(link_index, address) ==
    [link_index |-> link_index, local |-> Null, address |-> address,
     prefixlen |-> address.prefixlen]

\* Route of a network destination (host is False)
Route(dst, gw, link_index) ==
    [dst |-> dst, gw |-> gw, prefixlen |-> Len(dst.prefix),
     link_index |-> link_index, host |-> FALSE]

\* daemon.py: inet4_default_dst, inet6_default_dst
inet4_default_dst == Net("INET", <<>>)
inet6_default_dst == Net("INET6", <<>>)

\* Config.fib when the configuration file sets none
fib == 0

\* the records the kernel announces
LinkInputs ==
    { Link("em0", 1, TRUE), Link("em0", 1, FALSE),
      Link("em1", 2, TRUE), Link("em0", 2, TRUE) }
AddrInputs ==
    { LinkAddress(i, Interface("INET", <<0, 0>>, 1)) : i \in LinkIndexes }
RouteInputs ==
    { Route(inet4_default_dst, A1, 1), Route(inet4_default_dst, A2, 2),
      Route(inet4_default_dst, A2, 1), Route(inet6_default_dst, B1, 1),
      Route(Net("INET", <<1>>), Null, 2), Route(Net("INET", <<1>>), Null, 1) }

\* NetTables.new_link: a known index keeps its addrs
new_link_reset(lnks, link) ==
    [i \in DOMAIN lnks \cup {link.index} |->
        IF i # link.index THEN lnks[i] ELSE LinkAddresses(link, {})]
new_link(lnks, link) ==
    [i \in DOMAIN lnks \cup {link.index} |->
        IF i # link.index THEN lnks[i]
        ELSE IF link.index \in DOMAIN lnks
             THEN LinkAddresses(link, lnks[i].addrs)
             ELSE LinkAddresses(link, {})]

\* NetTables.del_link: what it leaves of links and of routes
del_link_links(lnks, link) ==
    [i \in DOMAIN lnks \ {link.index} |-> lnks[i]]
del_link_routes_keep(rts, link) == rts
del_link_routes(rts, link) ==
    rts \ {e \in rts : e.link_index = link.index}

\* NetTables.new_addr: self.links[a.link_index] raises KeyError for an index
\* NetTables does not hold
new_addr(lnks, a) ==
    IF a.link_index \notin DOMAIN lnks
    THEN [links |-> lnks, raised |-> "KeyError"]
    ELSE [links |-> [lnks EXCEPT ![a.link_index].addrs = @ \cup {a}],
          raised |-> None]

\* NetTables.del_addr
del_addr(lnks, a) ==
    IF a.link_index \notin DOMAIN lnks
    THEN [links |-> lnks, raised |-> "KeyError"]
    ELSE [links |-> [lnks EXCEPT ![a.link_index].addrs = @ \ {a}],
          raised |-> None]

\* NetTables.new_route, NetTables.del_route
new_route(rts, r) == rts \cup {r}
del_route(rts, r) == rts \ {r}

\* the methods class NetTables defines
NetTablesMethods ==
    { "new_link", "del_link", "new_addr", "del_addr", "get_links",
      "new_route", "del_route", "get_routes", "get_link_addrs" }

\* NetTables.get_links hands the predicate the values of self.links, which are
\* LinkAddresses tuples: the attributes the predicate can read are their fields
get_links_values(lnks) == {lnks[i] : i \in DOMAIN lnks}

\* NetTables.get_routes
get_routes(rts, dst) == {r \in rts : r.dst = dst}

\* NetTables.get_links(lambda e: True): the list of the LinkAddresses tuples
\* NetTables holds.  The addrs of a tuple is the set object NetTables holds for
\* that index (shared), not a copy of it.
get_links(lnks) ==
    [i \in DOMAIN lnks |->
        [link |-> lnks[i].link, addrs |-> lnks[i].addrs, shared |-> TRUE]]

\* NetTables.get_routes(lambda e: True): set(filter(...)), a new set of the
\* Route tuples
get_routes_all(rts) == rts

\* what the holder of an earlier get_links result reads in it once NetTables
\* holds after: new_addr and del_addr update the set object of the index in
\* place, new_link for a known index puts the same object into the new tuple,
\* del_link drops the tuple and the result keeps the object as it was
held(snap, after) ==
    IF ~ snap.taken \/ snap.query # "get_links" THEN snap
    ELSE [snap EXCEPT !.result =
            [i \in DOMAIN snap.result |->
                IF snap.result[i].shared /\ i \in DOMAIN after
                THEN [snap.result[i] EXCEPT !.addrs = after[i].addrs]
                ELSE [snap.result[i] EXCEPT !.shared = FALSE]]]

UnchangedGateways ==
    /\ UNCHANGED <<gateways, disabled, priority, now, added, query>>
    /\ UNCHANGED workerVars
    /\ UNCHANGED cliVars
UnchangedState == UnchangedGateways /\ UNCHANGED <<lastOp, snapshot>>

\* nettables.new_link(link)
NewLinkOp(link) ==
    /\ links' = new_link(links, link)
    /\ snapshot' = held(snapshot, links')
    /\ passes' = <<>>
    /\ UNCHANGED routes
    /\ UnchangedGateways

NewLink ==
    \E link \in LinkInputs :
        /\ NewLinkOp(link)
        /\ lastOp' = NoOp

\* the same call, with lastOp keeping the link of the NEWLINK and what
\* NetTables held before it
NewLinkEvent ==
    \E link \in LinkInputs :
        /\ NewLinkOp(link)
        /\ lastOp' = [op |-> "new_link", link |-> link, links |-> links,
                      routes |-> routes]

\* nettables.del_link(link)
DelLinkOp(link) ==
    /\ links' = del_link_links(links, link)
    /\ snapshot' = held(snapshot, links')
    /\ routes' = del_link_routes(routes, link)
    /\ passes' = <<>>
    /\ UnchangedGateways

DelLink ==
    \E link \in LinkInputs :
        /\ DelLinkOp(link)
        /\ lastOp' = NoOp

\* the same call, with lastOp keeping the link of the DELLINK and what
\* del_link removed
DelLinkEvent ==
    \E link \in LinkInputs :
        /\ DelLinkOp(link)
        /\ lastOp' = [op |-> "del_link", link |-> link,
                      known |-> link.index \in DOMAIN links,
                      removed |-> routes \ del_link_routes(routes, link)]

NewAddr ==
    \E a \in AddrInputs :
        /\ links' = new_addr(links, a).links
        /\ snapshot' = held(snapshot, links')
        /\ passes' = <<>>
        /\ UNCHANGED routes
        /\ lastOp' = NoOp
        /\ UnchangedGateways

DelAddr ==
    \E a \in AddrInputs :
        /\ links' = del_addr(links, a).links
        /\ snapshot' = held(snapshot, links')
        /\ passes' = <<>>
        /\ UNCHANGED routes
        /\ lastOp' = NoOp
        /\ UnchangedGateways

NewRoute ==
    \E r \in RouteInputs :
        /\ Cardinality(new_route(routes, r)) <= MaxRoutes
        /\ routes' = new_route(routes, r)
        /\ passes' = <<>>
        /\ UNCHANGED <<links, snapshot>>
        /\ lastOp' = NoOp
        /\ UnchangedGateways

DelRoute ==
    \E r \in RouteInputs :
        /\ routes' = del_route(routes, r)
        /\ passes' = <<>>
        /\ UNCHANGED <<links, snapshot>>
        /\ lastOp' = NoOp
        /\ UnchangedGateways

\* a caller takes nettables.get_links(lambda e: True) and keeps the list
GetLinks ==
    /\ snapshot' = [taken |-> TRUE, query |-> "get_links",
                    result |-> get_links(links), returned |-> get_links(links)]
    /\ UNCHANGED <<links, routes, passes, lastOp>>
    /\ UnchangedGateways

\* a caller takes nettables.get_routes(lambda e: True) and keeps the set
GetRoutes ==
    /\ snapshot' = [taken |-> TRUE, query |-> "get_routes",
                    result |-> get_routes_all(routes),
                    returned |-> get_routes_all(routes)]
    /\ UNCHANGED <<links, routes, passes, lastOp>>
    /\ UnchangedGateways

\* NetTables() under the kernel's changes, with a caller that queries it
InitSnapshot ==
    /\ gateways = {}
    /\ disabled = {}
    /\ priority = <<>>
    /\ now = 0
    /\ added = {}
    /\ lastOp = NoOp
    /\ query = NoQuery
    /\ InitTables
    /\ NotStarted

NextSnapshot ==
    \/ NewLink \/ DelLink \/ NewAddr \/ DelAddr \/ NewRoute \/ DelRoute
    \/ GetLinks \/ GetRoutes

SpecSnapshot == InitSnapshot /\ [][NextSnapshot]_vars

\* NetTables() under the kernel's changes, each NEWLINK kept in lastOp
NextLinks ==
    \/ NewLinkEvent \/ DelLink \/ NewAddr \/ DelAddr \/ NewRoute \/ DelRoute

SpecLinks == InitSnapshot /\ [][NextLinks]_vars

----------------------------------------------------------------------------
(* daemon.py: default_test, normalize_default, monitor *)

\* default_test(nettables, default): "True", "False" or the exception raised.
\* Line 33 reads e.name of every value get_links filters; line 44 calls
\* nettables.get_addrs.  No line after 44 is reached: NetTables defines no
\* get_addrs.
default_test(lnks, rts, default) ==
    LET values == get_links_values(lnks)
    IN  IF \E e \in values : "name" \notin DOMAIN e THEN "AttributeError"
        ELSE LET found == {e \in values : e.name = default.link}
             IN  IF Cardinality(found) # 1 THEN "False"
                 ELSE LET link == CHOOSE e \in found : TRUE
                      IN  IF ~ link.up THEN "False"
                          ELSE IF "get_addrs" \notin NetTablesMethods
                               THEN "AttributeError"
                               ELSE "False"

\* next(iter(filter(pdefault_test, defaults)), None): the tests run in list
\* order up to the first that passes or raises
RECURSIVE first_passing(_, _, _, _)
first_passing(lnks, rts, defaults, i) ==
    IF i > Len(defaults) THEN [default |-> Null, raised |-> None]
    ELSE LET t == default_test(lnks, rts, defaults[i])
         IN  IF t = "True" THEN [default |-> defaults[i], raised |-> None]
             ELSE IF t = "False" THEN first_passing(lnks, rts, defaults, i + 1)
             ELSE [default |-> Null, raised |-> t]

\* current_default, = nettables.get_routes(...): None unless exactly one matches
current_default_any(rts, dst) ==
    IF Cardinality(rts) = 1 THEN CHOOSE r \in rts : TRUE ELSE Null
current_default(rts, dst) ==
    LET found == get_routes(rts, dst)
    IN  IF Cardinality(found) = 1 THEN CHOOSE r \in found : TRUE ELSE Null

\* the parameters of bsdnetlink.delete_route and bsdnetlink.new_route
delete_route_params == <<"dst", "gw", "iface">>
new_route_params == <<"dst", "gw", "iface">>

\* a call with positional arguments: TypeError unless they fit the parameters,
\* else the route command goes to the kernel; calls is the call as the call
\* site makes it
call(params, cmd, args) ==
    IF Len(args) # Len(params)
    THEN [raised |-> "TypeError", cmds |-> <<>>,
          calls |-> <<[cmd |-> cmd, args |-> args]>>]
    ELSE [raised |-> None, cmds |-> <<[cmd |-> cmd, args |-> args]>>,
          calls |-> <<[cmd |-> cmd, args |-> args]>>]

\* bsdnetlink.if_nametoindex(snl, name): the index of the link of that name
if_nametoindex(lnks, name) ==
    LET found == {i \in DOMAIN lnks : lnks[i].link.name = name}
    IN  IF found = {} THEN [index |-> 0, raised |-> "NotFound"]
        ELSE [index |-> CHOOSE i \in found : \A j \in found : i <= j,
              raised |-> None]

\* bsdnetlink.add_route(snl, fib, destination, gateway, out_link)
add_route(args) ==
    [raised |-> None, cmds |-> <<[cmd |-> "add_route", args |-> args]>>,
     calls |-> <<[cmd |-> "add_route", args |-> args]>>]

\* the result of one normalize_default call
\* (selected: line 61 returned; calls: the calls of lines 75, 79, 85 and 86
\* that were made, cmds: those of them that went to the kernel)
Outcome(af, defaults, selected, default, current, calls, cmds, raised) ==
    [af |-> af, defaults |-> defaults, selected |-> selected,
     default |-> default, current |-> current, calls |-> calls, cmds |-> cmds,
     raised |-> raised]

\* normalize_default that sends a delete_route for the default destination
\* without looking at the selection or the current route
normalize_default_nonoop(af, af_default_dst, defaults, lnks, rts) ==
    Outcome(af, defaults, TRUE, Null, Null,
            <<[cmd |-> "delete_route",
               args |-> <<"snl", fib, af_default_dst, Null, 0>>]>>,
            <<[cmd |-> "delete_route",
               args |-> <<"snl", fib, af_default_dst, Null, 0>>]>>, None)

\* normalize_default(defaultconf, nettables, snl, fib, af, af_default_dst), for
\* the list get_defaults returned
normalize_default(af, af_default_dst, defaults, lnks, rts) ==
    LET sel == first_passing(lnks, rts, defaults, 1)
        default == sel.default
        link_index == if_nametoindex(lnks, default.link)
        current == current_default(rts, af_default_dst)
        deleted == call(delete_route_params, "delete_route",
                        <<"snl", fib, current.dst, current.gw, current.link_index>>)
        created == call(new_route_params, "new_route",
                        <<"snl", fib, af_default_dst, default.addr, link_index.index>>)
        addcmd == add_route(<<"snl", fib, af_default_dst, default.addr,
                              link_index.index>>)
    IN  IF sel.raised # None
        THEN Outcome(af, defaults, FALSE, Null, Null, <<>>, <<>>, sel.raised)
        ELSE IF default # Null /\ link_index.raised # None
        THEN Outcome(af, defaults, TRUE, default, Null, <<>>, <<>>,
                     link_index.raised)
        ELSE IF default = Null
        THEN IF current = Null
             THEN Outcome(af, defaults, TRUE, default, current, <<>>, <<>>, None)
             ELSE Outcome(af, defaults, TRUE, default, current,
                          deleted.calls, deleted.cmds, deleted.raised)
        ELSE IF current = Null
             THEN Outcome(af, defaults, TRUE, default, current,
                          created.calls, created.cmds, created.raised)
        ELSE IF current.gw = default.addr
             THEN Outcome(af, defaults, TRUE, default, current, <<>>, <<>>, None)
        ELSE IF deleted.raised # None
             THEN Outcome(af, defaults, TRUE, default, current,
                          deleted.calls, deleted.cmds, deleted.raised)
             ELSE Outcome(af, defaults, TRUE, default, current,
                          deleted.calls \o addcmd.calls,
                          deleted.cmds \o addcmd.cmds, addcmd.raised)

\* one round of monitor's loop after the trigger was acquired: AF_INET, then
\* AF_INET6, each in its own try
MonitorPass ==
    /\ Len(passes) < MaxPasses
    /\ \E d4 \in get_defaults(gateways, disabled, priority,
                              GatewaySelect("INET", None, None)),
          d6 \in get_defaults(gateways, disabled, priority,
                              GatewaySelect("INET6", None, None)) :
         passes' = Append(passes,
            [INET |-> normalize_default("INET", inet4_default_dst, d4, links, routes),
             INET6 |-> normalize_default("INET6", inet6_default_dst, d6, links, routes)])
    /\ UNCHANGED <<links, routes>>
    /\ UnchangedState

\* the disable sets a state file holds
StoredDisabled ==
    { {},
      {GatewaySelect(None, "em0", None)},
      {GatewaySelect(None, None, "static"), GatewaySelect("INET", "em0", "dhcp")} }

\* daemon(config): DefaultConf reads the State, NetTables starts empty
Init ==
    /\ gateways \in StoredGateways
    /\ disabled \in StoredDisabled
    /\ priority \in Priorities
    /\ now = 0
    /\ added = {}
    /\ lastOp = NoOp
    /\ query = NoQuery
    /\ InitTables
    /\ NotStarted

Next ==
    \/ NewLink \/ DelLink \/ NewAddr \/ DelAddr \/ NewRoute \/ DelRoute
    \/ MonitorPass

Spec == Init /\ [][Next]_vars

\* failover: the State holds the dhcp candidates of em0 and em1, the tables
\* change under it
InitFailover ==
    /\ gateways = {G1, G3}
    /\ disabled = {}
    /\ priority \in Priorities
    /\ now = 0
    /\ added = {}
    /\ lastOp = NoOp
    /\ query = NoQuery
    /\ InitTables
    /\ NotStarted

NextFailover ==
    \/ NewLink \/ DelLinkEvent \/ NewAddr \/ NewRoute \/ DelRoute
    \/ MonitorPass

SpecFailover == InitFailover /\ [][NextFailover]_vars

----------------------------------------------------------------------------
(* daemon.py: Trigger, daemon; bsdnetlink.py: maintain_nettables.           *)
(* One action per step of a thread between two points where it can be      *)
(* interleaved with the others.                                             *)

\* Trigger.release: BoundedSemaphore(1).release() raises ValueError at the
\* bound, release passes over it
release_unbounded(s) == s + 1
release(s) == IF s >= 1 THEN s ELSE s + 1

\* Trigger.acquire(timeout=timeout): the results it can return, none while it
\* blocks (the timeout is "1" for timeout=1)
acquire_lossy(s, timeout) ==
    IF s > 0 THEN {[ok |-> TRUE, s |-> s - 1], [ok |-> FALSE, s |-> s - 1]}
    ELSE IF timeout # None THEN {[ok |-> FALSE, s |-> s]}
    ELSE {}
acquire_blocking(s, timeout) ==
    IF s > 0 THEN {[ok |-> TRUE, s |-> s - 1]} ELSE {}
acquire(s, timeout) ==
    IF s > 0 THEN {[ok |-> TRUE, s |-> s - 1]}
    ELSE IF timeout # None THEN {[ok |-> FALSE, s |-> s]}
    ELSE {}

\* concurrent.futures.wait(tasks, return_when=FIRST_COMPLETED) returns
completed(t) ==
    IF t = "finish.wait" THEN finish_ev ELSE pc[t] \in {"done", "raised"}
all_completed(tasks) == \A t \in tasks : completed(t)
first_completed(tasks) == \E t \in tasks : completed(t)

\* for task in done: task.result()
result(tasks) ==
    IF \E t \in tasks \ {"finish.wait"} : pc[t] = "raised"
    THEN "raised" ELSE "done"

\* DefaultConf.reload_state: the State that replaces self.state
reload_state(state, path) == path

\* queue.Queue.get(self, block=True, timeout=None)
queue_get_params == <<"block", "timeout">>

\* nlmsg_q.get(**{keyword: 1})
queue_get(q, keyword) ==
    IF keyword \notin Range(queue_get_params)
    THEN [raised |-> "TypeError", q |-> q]
    ELSE IF q = <<>> THEN [raised |-> "Empty", q |-> q]
    ELSE [raised |-> None, item |-> Head(q), q |-> Tail(q)]

\* what the kernel dumps at start, and what it announces later
KernelLink == Link("em0", 1, TRUE)
KernelAddr == LinkAddress(1, Interface("INET", <<0, 0>>, 1))
KernelRoute == Route(inet4_default_dst, A2, 1)
KernelEvents ==
    { [nlmsg_type |-> "RTM_DELROUTE", nlmsg |-> KernelRoute] }

\* snl_parsed_route: the fields of a route record that
\* Route.from_snl_parsed_route reads
ParsedRoute(dst, dst_len, gw, oif, rtflags, num_nhops) ==
    [rta_dst |-> dst, rtm_dst_len |-> dst_len, rta_gw |-> gw, rta_oif |-> oif,
     rta_rtflags |-> rtflags, rta_multipath |-> [num_nhops |-> num_nhops]]

\* ipaddress.ip_network((dst, prefixlen))
ip_network(dst, prefixlen) == Net(dst.af, SubSeq(dst.bits, 1, prefixlen))

\* Route.from_snl_parsed_route(s)
from_snl_parsed_route(s) ==
    IF s.rta_multipath.num_nhops # 0
    THEN [raised |-> "Exception", route |-> Null]
    ELSE LET host_flag == "RTF_HOST" \in s.rta_rtflags
         IN  [raised |-> None,
              route |-> [dst |-> IF host_flag THEN s.rta_dst
                                 ELSE ip_network(s.rta_dst, s.rtm_dst_len),
                         gw |-> IF "RTF_GATEWAY" \in s.rta_rtflags
                                THEN s.rta_gw ELSE Null,
                         prefixlen |-> s.rtm_dst_len,
                         link_index |-> s.rta_oif,
                         host |-> host_flag]]

\* the default route as dump_routes reports it, and a route with two next
\* hops
KernelParsedRoute ==
    ParsedRoute(Addr("INET", <<0, 0>>), 0, A2, 1, {"RTF_GATEWAY"}, 0)
MultipathRoute ==
    ParsedRoute(Addr("INET", <<0, 0>>), 0, A2, 1, {"RTF_GATEWAY"}, 2)

\* an address of a link dump_links did not report, a message of a kind
\* monitor_nl has no parser for
OrphanAddr == LinkAddress(2, Interface("INET", <<0, 0>>, 1))
OtherEvents == { [nlmsg_type |-> "RTM_NEWNEIGH", nlmsg |-> Null] }

\* parse_nlmsg(snl, hdr)
parse_nlmsg(hdr) ==
    IF hdr.nlmsg_type \in {"RTM_NEWLINK", "RTM_DELLINK"}
    THEN [raised |-> None, nlmsg |-> hdr.nlmsg]
    ELSE IF hdr.nlmsg_type \in {"RTM_NEWADDR", "RTM_DELADDR"}
    THEN [raised |-> None, nlmsg |-> hdr.nlmsg]
    ELSE IF hdr.nlmsg_type \in {"RTM_NEWROUTE", "RTM_DELROUTE"}
    THEN [raised |-> None, nlmsg |-> hdr.nlmsg]
    ELSE [raised |-> "Exception", nlmsg |-> Null]

\* the branches of nlmsg_handler on nlmsg_type
apply_nlmsg(lnks, rts, m) ==
    IF m.nlmsg_type = "RTM_NEWLINK"
    THEN [links |-> new_link(lnks, m.nlmsg), routes |-> rts, raised |-> None]
    ELSE IF m.nlmsg_type = "RTM_DELLINK"
    THEN [links |-> del_link_links(lnks, m.nlmsg),
          routes |-> del_link_routes(rts, m.nlmsg), raised |-> None]
    ELSE IF m.nlmsg_type = "RTM_NEWADDR"
    THEN [links |-> new_addr(lnks, m.nlmsg).links, routes |-> rts,
          raised |-> new_addr(lnks, m.nlmsg).raised]
    ELSE IF m.nlmsg_type = "RTM_DELADDR"
    THEN [links |-> del_addr(lnks, m.nlmsg).links, routes |-> rts,
          raised |-> del_addr(lnks, m.nlmsg).raised]
    ELSE IF m.nlmsg_type = "RTM_NEWROUTE"
    THEN [links |-> lnks, routes |-> new_route(rts, m.nlmsg), raised |-> None]
    ELSE IF m.nlmsg_type = "RTM_DELROUTE"
    THEN [links |-> lnks, routes |-> del_route(rts, m.nlmsg), raised |-> None]
    ELSE [links |-> lnks, routes |-> rts, raised |-> None]

\* the States the command line writes to the state file
FileStates ==
    { [gateways |-> {G1}, disabled |-> {}],
      [gateways |-> {G1}, disabled |-> {GatewaySelect(None, "em0", None)}] }

\* the tables maintain_nettables has dumped into NetTables
DumpedTables ==
    IF pc["maintain_nettables"] \in {"idle", "start", "dump_links"} THEN 0
    ELSE IF pc["maintain_nettables"] = "dump_addrs" THEN 1
    ELSE IF pc["maintain_nettables"] = "dump_routes" THEN 2
    ELSE IF pc["maintain_nettables"] = "raised" /\ pc["nlmsg_handler"] = "idle"
         THEN 1
    ELSE 3

\* history of trigger_ev: releases since the acquire before the last one (2
\* for two or more), acquires since the last release
TrigRelease(t) ==
    [rel |-> IF t.acq > 0 THEN 1 ELSE IF t.rel >= 2 THEN 2 ELSE t.rel + 1,
     acq |-> 0]
TrigAcquire(t) == [rel |-> t.rel, acq |-> t.acq + 1]

stateVars == <<gateways, disabled, priority, now, added, lastOp, query,
               snapshot, cliVars>>
tableVars == <<links, routes, passes>>

\* daemon(config), lines 91-101: DefaultConf reads the state file, finish_ev
\* and both Triggers are created, finish_ev.wait is submitted
InitDaemon ==
    /\ file = [gateways |-> {G1}, disabled |-> {}]
    /\ gateways = file.gateways
    /\ disabled = file.disabled
    /\ priority = <<>>
    /\ now = 0
    /\ added = {}
    /\ lastOp = NoOp
    /\ query = NoQuery
    /\ InitTables
    /\ finish_ev = FALSE
    /\ trigger_ev = 0
    /\ state_reload_ev = 0
    /\ pc = [t \in Threads |->
               IF t = "daemon" THEN "l122" ELSE "idle"]
    /\ nlmsg_q = <<>>
    /\ reloaded = [content |-> file, passed |-> FALSE]
    /\ sigs = [usr1 |-> 0, term |-> FALSE]
    /\ trig = [rel |-> 0, acq |-> 0]
    /\ run = NoRun
    /\ snapshot = NoSnapshot
    /\ NoCli

\* sigterm_handler, for SIGTERM and SIGINT
sigterm_handler ==
    /\ ~ sigs.term
    /\ finish_ev' = TRUE
    /\ sigs' = [sigs EXCEPT !.term = TRUE]
    /\ UNCHANGED <<trigger_ev, state_reload_ev, pc, nlmsg_q, file, reloaded,
                   trig, run>>
    /\ UNCHANGED stateVars /\ UNCHANGED tableVars

\* State.update in a command-line process: state.to_path(state_path), then
\* try_signal_daemon; in the daemon sigusr1_handler runs
update ==
    /\ sigs.usr1 < MaxSignals
    /\ \E st \in FileStates \ {file} : file' = st
    /\ state_reload_ev' = release(state_reload_ev)
    /\ sigs' = [sigs EXCEPT !.usr1 = @ + 1]
    /\ UNCHANGED <<finish_ev, trigger_ev, pc, nlmsg_q, reloaded, trig, run>>
    /\ UNCHANGED stateVars /\ UNCHANGED tableVars

\* daemon, lines 122, 125, 146: executor.submit of the three workers
Submit ==
    /\ pc["daemon"] \in {"l122", "l125", "l146"}
    /\ pc' = IF pc["daemon"] = "l122"
             THEN [pc EXCEPT !["daemon"] = "l125",
                             !["state_reload_handler"] = "loop"]
             ELSE IF pc["daemon"] = "l125"
             THEN [pc EXCEPT !["daemon"] = "l146",
                             !["maintain_nettables"] = "start"]
             ELSE [pc EXCEPT !["daemon"] = "wait", !["monitor"] = "loop"]
    /\ UNCHANGED <<finish_ev, trigger_ev, state_reload_ev, nlmsg_q, file,
                   reloaded, sigs, trig, run>>
    /\ UNCHANGED stateVars /\ UNCHANGED tableVars

\* daemon, lines 148-153
DaemonWait ==
    LET tasks == {"finish.wait", "state_reload_handler", "maintain_nettables",
                  "monitor"}
    IN  /\ pc["daemon"] = "wait"
        /\ first_completed(tasks)
        /\ finish_ev' = TRUE
        /\ pc' = [pc EXCEPT !["daemon"] = result(tasks)]
        /\ UNCHANGED <<trigger_ev, state_reload_ev, nlmsg_q, file, reloaded,
                       sigs, trig, run>>
        /\ UNCHANGED stateVars /\ UNCHANGED tableVars

\* state_reload_handler, line 117
StateReloadLoop ==
    /\ pc["state_reload_handler"] = "loop"
    /\ pc' = [pc EXCEPT !["state_reload_handler"] =
                 IF finish_ev THEN "done" ELSE "acquire"]
    /\ UNCHANGED <<finish_ev, trigger_ev, state_reload_ev, nlmsg_q, file,
                   reloaded, sigs, trig, run>>
    /\ UNCHANGED stateVars /\ UNCHANGED tableVars

\* state_reload_handler, lines 118-119
StateReloadAcquire ==
    /\ pc["state_reload_handler"] = "acquire"
    /\ \E r \in acquire(state_reload_ev, "1") :
          /\ state_reload_ev' = r.s
          /\ pc' = [pc EXCEPT !["state_reload_handler"] =
                       IF r.ok THEN "reload" ELSE "loop"]
    /\ UNCHANGED <<finish_ev, trigger_ev, nlmsg_q, file, reloaded, sigs, trig,
                   run>>
    /\ UNCHANGED stateVars /\ UNCHANGED tableVars

\* state_reload_handler, line 120
StateReload ==
    LET state == reload_state([gateways |-> gateways, disabled |-> disabled],
                              file)
    IN  /\ pc["state_reload_handler"] = "reload"
        /\ gateways' = state.gateways
        /\ disabled' = state.disabled
        /\ reloaded' = [content |-> file, passed |-> FALSE]
        /\ pc' = [pc EXCEPT !["state_reload_handler"] = "release"]
        /\ UNCHANGED <<finish_ev, trigger_ev, state_reload_ev, nlmsg_q, file,
                       sigs, trig, run>>
        /\ UNCHANGED <<priority, now, added, lastOp, query, snapshot>>
        /\ UNCHANGED cliVars
        /\ UNCHANGED tableVars

\* state_reload_handler, line 121
StateReloadRelease ==
    /\ pc["state_reload_handler"] = "release"
    /\ trigger_ev' = release(trigger_ev)
    /\ trig' = TrigRelease(trig)
    /\ pc' = [pc EXCEPT !["state_reload_handler"] = "loop"]
    /\ UNCHANGED <<finish_ev, state_reload_ev, nlmsg_q, file, reloaded, sigs,
                   run>>
    /\ UNCHANGED stateVars /\ UNCHANGED tableVars

\* maintain_nettables, lines 308-315: finish.wait and monitor_nl are submitted
MaintainStart ==
    /\ pc["maintain_nettables"] = "start"
    /\ pc' = [pc EXCEPT !["maintain_nettables"] = "dump_links",
                        !["monitor_nl"] = "loop"]
    /\ UNCHANGED <<finish_ev, trigger_ev, state_reload_ev, nlmsg_q, file,
                   reloaded, sigs, trig, run>>
    /\ UNCHANGED stateVars /\ UNCHANGED tableVars

\* maintain_nettables, lines 318-319
DumpLinks ==
    /\ pc["maintain_nettables"] = "dump_links"
    /\ links' = new_link(links, KernelLink)
    /\ pc' = [pc EXCEPT !["maintain_nettables"] = "dump_addrs"]
    /\ UNCHANGED <<finish_ev, trigger_ev, state_reload_ev, nlmsg_q, file,
                   reloaded, sigs, trig, run>>
    /\ UNCHANGED stateVars /\ UNCHANGED <<routes, passes>>

\* maintain_nettables, lines 320-321, for the address a that dump_addrs yields
DumpAddrsOf(a) ==
    LET r == new_addr(links, a)
    IN  /\ pc["maintain_nettables"] = "dump_addrs"
        /\ links' = r.links
        /\ pc' = [pc EXCEPT !["maintain_nettables"] =
                     IF r.raised # None THEN "raised" ELSE "dump_routes"]
        /\ UNCHANGED <<finish_ev, trigger_ev, state_reload_ev, nlmsg_q, file,
                       reloaded, sigs, trig, run>>
        /\ UNCHANGED stateVars /\ UNCHANGED <<routes, passes>>

DumpAddrs == DumpAddrsOf(KernelAddr)

\* the same lines when the kernel reports an address of a link that came up
\* after dump_links
DumpOrphanAddr == DumpAddrsOf(OrphanAddr)

\* maintain_nettables, lines 322-323, for the record s that dump_routes yields
DumpRoutesOf(s) ==
    LET r == from_snl_parsed_route(s)
    IN  /\ pc["maintain_nettables"] = "dump_routes"
        /\ routes' = IF r.raised # None THEN routes
                      ELSE new_route(routes, r.route)
        /\ pc' = [pc EXCEPT !["maintain_nettables"] =
                     IF r.raised # None THEN "raised" ELSE "release"]
        /\ UNCHANGED <<finish_ev, trigger_ev, state_reload_ev, nlmsg_q, file,
                       reloaded, sigs, trig, run>>
        /\ UNCHANGED stateVars /\ UNCHANGED <<links, passes>>

DumpRoutes == DumpRoutesOf(KernelParsedRoute)

\* the same lines when the kernel reports a route with several next hops
DumpMultipathRoute == DumpRoutesOf(MultipathRoute)

\* maintain_nettables, line 324
MaintainRelease ==
    /\ pc["maintain_nettables"] = "release"
    /\ trigger_ev' = release(trigger_ev)
    /\ trig' = TrigRelease(trig)
    /\ pc' = [pc EXCEPT !["maintain_nettables"] = "submit"]
    /\ UNCHANGED <<finish_ev, state_reload_ev, nlmsg_q, file, reloaded, sigs,
                   run>>
    /\ UNCHANGED stateVars /\ UNCHANGED tableVars

\* maintain_nettables, line 347: nlmsg_handler is submitted
MaintainSubmit ==
    /\ pc["maintain_nettables"] = "submit"
    /\ pc' = [pc EXCEPT !["maintain_nettables"] = "wait",
                        !["nlmsg_handler"] = "loop"]
    /\ UNCHANGED <<finish_ev, trigger_ev, state_reload_ev, nlmsg_q, file,
                   reloaded, sigs, trig, run>>
    /\ UNCHANGED stateVars /\ UNCHANGED tableVars

\* maintain_nettables, lines 350-354
MaintainWait ==
    LET tasks == {"finish.wait", "monitor_nl", "nlmsg_handler"}
    IN  /\ pc["maintain_nettables"] = "wait"
        /\ first_completed(tasks)
        /\ finish_ev' = TRUE
        /\ pc' = [pc EXCEPT !["maintain_nettables"] = result(tasks)]
        /\ UNCHANGED <<trigger_ev, state_reload_ev, nlmsg_q, file, reloaded,
                       sigs, trig, run>>
        /\ UNCHANGED stateVars /\ UNCHANGED tableVars

\* monitor_nl, line 109
MonitorNlLoop ==
    /\ pc["monitor_nl"] = "loop"
    /\ pc' = [pc EXCEPT !["monitor_nl"] = IF finish_ev THEN "done" ELSE "read"]
    /\ UNCHANGED <<finish_ev, trigger_ev, state_reload_ev, nlmsg_q, file,
                   reloaded, sigs, trig, run>>
    /\ UNCHANGED stateVars /\ UNCHANGED tableVars

\* monitor_nl, lines 110-116: read_message times out after a second, or a
\* message of events is parsed and goes to the handler, which puts it on
\* nlmsg_q
MonitorNlReadOf(events) ==
    /\ pc["monitor_nl"] = "read"
    /\ \/ /\ UNCHANGED nlmsg_q
          /\ pc' = [pc EXCEPT !["monitor_nl"] = "loop"]
       \/ \E hdr \in events :
             LET parsed == parse_nlmsg(hdr)
             IN  IF parsed.raised # None
                 THEN /\ UNCHANGED nlmsg_q
                      /\ pc' = [pc EXCEPT !["monitor_nl"] = "raised"]
                 ELSE /\ Len(nlmsg_q) < MaxQueue
                      /\ nlmsg_q' = Append(nlmsg_q,
                             [nlmsg_type |-> hdr.nlmsg_type,
                              nlmsg |-> parsed.nlmsg])
                      /\ pc' = [pc EXCEPT !["monitor_nl"] = "loop"]
    /\ UNCHANGED <<finish_ev, trigger_ev, state_reload_ev, file, reloaded,
                   sigs, trig, run>>
    /\ UNCHANGED stateVars /\ UNCHANGED tableVars

MonitorNlRead == MonitorNlReadOf(KernelEvents)

\* the same lines when the kernel sends a message of another kind
MonitorNlReadOther == MonitorNlReadOf(OtherEvents)

\* nlmsg_handler, line 327
HandlerLoop ==
    /\ pc["nlmsg_handler"] = "loop"
    /\ pc' = [pc EXCEPT !["nlmsg_handler"] = IF finish_ev THEN "done" ELSE "get"]
    /\ UNCHANGED <<finish_ev, trigger_ev, state_reload_ev, nlmsg_q, file,
                   reloaded, sigs, trig, run>>
    /\ UNCHANGED stateVars /\ UNCHANGED tableVars

\* nlmsg_handler, lines 328-346: one round of the loop from nlmsg_q.get on
HandlerGet ==
    LET got == queue_get(nlmsg_q, "read_timeout")
        applied == apply_nlmsg(links, routes, got.item)
    IN  /\ pc["nlmsg_handler"] = "get"
        /\ nlmsg_q' = got.q
        /\ IF got.raised = "Empty"
           THEN /\ pc' = [pc EXCEPT !["nlmsg_handler"] = "loop"]
                /\ UNCHANGED <<links, routes, trigger_ev, trig>>
           ELSE IF got.raised # None
           THEN /\ pc' = [pc EXCEPT !["nlmsg_handler"] = "raised"]
                /\ UNCHANGED <<links, routes, trigger_ev, trig>>
           ELSE IF applied.raised # None
           THEN /\ pc' = [pc EXCEPT !["nlmsg_handler"] = "raised"]
                /\ UNCHANGED <<links, routes, trigger_ev, trig>>
           ELSE /\ links' = applied.links
                /\ routes' = applied.routes
                /\ trigger_ev' = release(trigger_ev)
                /\ trig' = TrigRelease(trig)
                /\ pc' = [pc EXCEPT !["nlmsg_handler"] = "loop"]
        /\ UNCHANGED <<finish_ev, state_reload_ev, file, reloaded, sigs, run>>
        /\ UNCHANGED stateVars /\ UNCHANGED passes

\* monitor, line 132
MonitorLoop ==
    /\ pc["monitor"] = "loop"
    /\ pc' = [pc EXCEPT !["monitor"] = IF finish_ev THEN "done" ELSE "acquire"]
    /\ UNCHANGED <<finish_ev, trigger_ev, state_reload_ev, nlmsg_q, file,
                   reloaded, sigs, trig, run>>
    /\ UNCHANGED stateVars /\ UNCHANGED tableVars

\* monitor, lines 133-134
MonitorAcquire ==
    /\ pc["monitor"] = "acquire"
    /\ \E r \in acquire(trigger_ev, "1") :
          /\ trigger_ev' = r.s
          /\ trig' = IF r.ok THEN TrigAcquire(trig) ELSE trig
          /\ pc' = [pc EXCEPT !["monitor"] = IF r.ok THEN "pass" ELSE "loop"]
    /\ UNCHANGED <<finish_ev, state_reload_ev, nlmsg_q, file, reloaded, sigs,
                   run>>
    /\ UNCHANGED stateVars /\ UNCHANGED tableVars

\* monitor, lines 135-144: the pass; run keeps what it read and what came of it
MonitorBody ==
    /\ pc["monitor"] = "pass"
    /\ \E d4 \in get_defaults(gateways, disabled, priority,
                              GatewaySelect("INET", None, None)),
          d6 \in get_defaults(gateways, disabled, priority,
                              GatewaySelect("INET6", None, None)) :
         run' = [ran |-> TRUE,
                 dumped |-> DumpedTables,
                 state |-> [gateways |-> gateways, disabled |-> disabled],
                 INET |-> normalize_default("INET", inet4_default_dst, d4,
                                            links, routes),
                 INET6 |-> normalize_default("INET6", inet6_default_dst, d6,
                                             links, routes)]
    /\ reloaded' = [reloaded EXCEPT !.passed = TRUE]
    /\ pc' = [pc EXCEPT !["monitor"] = "loop"]
    /\ UNCHANGED <<finish_ev, trigger_ev, state_reload_ev, nlmsg_q, file, sigs,
                   trig>>
    /\ UNCHANGED stateVars /\ UNCHANGED tableVars

\* the steps of each thread
DaemonThread == Submit \/ DaemonWait
StateReloadThread ==
    StateReloadLoop \/ StateReloadAcquire \/ StateReload \/ StateReloadRelease
MaintainThread ==
    \/ MaintainStart \/ DumpLinks \/ DumpAddrs \/ DumpRoutes
    \/ MaintainRelease \/ MaintainSubmit \/ MaintainWait
MonitorNlThread == MonitorNlLoop \/ MonitorNlRead
HandlerThread == HandlerLoop \/ HandlerGet
MonitorThread == MonitorLoop \/ MonitorAcquire \/ MonitorBody

NextDaemon ==
    \/ sigterm_handler \/ update
    \/ Submit \/ DaemonWait
    \/ StateReloadLoop \/ StateReloadAcquire \/ StateReload \/ StateReloadRelease
    \/ MaintainStart \/ DumpLinks \/ DumpAddrs \/ DumpRoutes
    \/ MaintainRelease \/ MaintainSubmit \/ MaintainWait
    \/ MonitorNlLoop \/ MonitorNlRead
    \/ HandlerLoop \/ HandlerGet
    \/ MonitorLoop \/ MonitorAcquire \/ MonitorBody

SpecDaemon == InitDaemon /\ [][NextDaemon]_vars

\* the daemon beside a kernel that also reports an address without its link
\* or a route with several next hops, and sends messages of other kinds
NextKernel ==
    \/ NextDaemon \/ DumpOrphanAddr \/ MonitorNlReadOther
    \/ DumpMultipathRoute

SpecKernel == InitDaemon /\ [][NextKernel]_vars

\* every thread that can take a step takes one in the end; signals, state
\* updates and kernel messages come or do not
SpecDaemonFair ==
    /\ SpecDaemon
    /\ WF_vars(DaemonThread)
    /\ WF_vars(StateReloadThread)
    /\ WF_vars(MaintainThread)
    /\ WF_vars(MonitorNlThread)
    /\ WF_vars(HandlerThread)
    /\ WF_vars(MonitorThread)

----------------------------------------------------------------------------
(* common.py: State.update, try_signal_daemon; defaultconf.py: the commands *)
(* add, remove, enable and disable.  A set of a State is modelled as the    *)
(* sequence of its elements in iteration order.                             *)

\* the orders a set can be iterated in
orders(S) ==
    {s \in [1..Cardinality(S) -> S] :
        \A i, j \in 1..Cardinality(S) : i # j => s[i] # s[j]}

\* set.update and set.difference_update work in place: the elements that
\* stay keep their order, a new element lands anywhere among them
in_place(s, T) ==
    {t \in orders(T) :
        SelectSeq(t, LAMBDA e : e \in Range(s))
            = SelectSeq(s, LAMBDA e : e \in T)}

\* State.from_path: the States reading the file can build; from_data makes
\* sets of the lists, which iterate in any order
from_path(f) ==
    {[gateways |-> g, disabled |-> d] :
        g \in orders(f.gateways), d \in orders(f.disabled)}

\* socket.AddressFamily: af.name, and AddressFamily[name], a KeyError for a
\* name that is none of its members
af_name(af) == IF af = "INET" THEN "AF_INET" ELSE "AF_INET6"
AddressFamily(name) ==
    IF name = "AF_INET" THEN "INET"
    ELSE IF name = "AF_INET6" THEN "INET6"
    ELSE "KeyError"

\* str(addr) and ipaddress.ip_address(text): the text holds the address bits,
\* and its notation (dots or colons) tells the family
str(addr) == [text |-> addr.bits, colons |-> addr.af = "INET6"]
ip_address(s) ==
    [af |-> IF s.colons THEN "INET6" ELSE "INET", bits |-> s.text]

\* Gateway.to_data, Gateway.from_data
Gateway_to_data_asdict(g) ==
    [af |-> g.af, link |-> g.link, protocol |-> g.protocol,
     addr |-> str(g.addr), ts |-> g.ts]
Gateway_to_data(g) ==
    [af |-> af_name(g.af), link |-> g.link, protocol |-> g.protocol,
     addr |-> str(g.addr), ts |-> g.ts]
Gateway_from_data(data) ==
    Gateway(AddressFamily(data.af), data.link, data.protocol,
            ip_address(data.addr), data.ts)

\* GatewaySelect.to_data, GatewaySelect.from_data
GatewaySelect_to_data(select) ==
    [af |-> IF select.af # None THEN af_name(select.af) ELSE None,
     link |-> select.link, protocol |-> select.protocol]
GatewaySelect_from_data(data) ==
    GatewaySelect(IF data.af # None THEN AddressFamily(data.af) ELSE None,
                  data.link, data.protocol)

\* State.to_data: the lists of the elements in iteration order
to_data(state) ==
    [disabled |-> [i \in DOMAIN state.disabled |->
                     GatewaySelect_to_data(state.disabled[i])],
     gateways |-> [i \in DOMAIN state.gateways |->
                     Gateway_to_data(state.gateways[i])]]

\* State.from_data: the sets of what the lists hold
from_data(data) ==
    [gateways |-> {Gateway_from_data(data.gateways[i]) :
                      i \in DOMAIN data.gateways},
     disabled |-> {GatewaySelect_from_data(data.disabled[i]) :
                      i \in DOMAIN data.disabled}]

\* json.dumps(data, sort_keys=True): the values in the order of their keys
dumps(data) == <<data.disabled, data.gateways>>

\* State.to_path: what a later from_path finds in the file
to_path(state) == from_data(to_data(state))

\* the command lines: add, remove, disable, enable with their arguments
CliCommands ==
    { [op |-> "add", af |-> "INET", link |-> "em0", protocol |-> "dhcp",
       addr |-> A1],
      [op |-> "add", af |-> "INET", link |-> "em1", protocol |-> "static",
       addr |-> A2],
      [op |-> "remove", select |-> GatewaySelect(None, "em0", None)],
      [op |-> "remove", select |-> GatewaySelect("INET6", None, None)],
      [op |-> "disable", select |-> GatewaySelect(None, "em0", None)],
      [op |-> "enable", select |-> GatewaySelect(None, None, None)] }

\* the body of 'with State.update(config) as state': the States the command
\* can leave, for time.time() = ts
mutate(state, cmd, ts) ==
    LET gws == Range(state.gateways)
        dis == Range(state.disabled)
    IN  IF cmd.op = "add"
        THEN LET select == GatewaySelect(cmd.af, cmd.link, cmd.protocol)
             IN  {[state EXCEPT !.gateways = g] :
                    g \in UNION {in_place(r, add(gws, cmd.af, cmd.link,
                                                 cmd.protocol, cmd.addr, ts)) :
                                    r \in in_place(state.gateways,
                                                   remove(gws, select))}}
        ELSE IF cmd.op = "remove"
        THEN {[state EXCEPT !.gateways = g] :
                g \in in_place(state.gateways, remove(gws, cmd.select))}
        ELSE IF cmd.op = "disable"
        THEN {[state EXCEPT !.disabled = d] :
                d \in in_place(state.disabled, disable(dis, cmd.select))}
        ELSE {[state EXCEPT !.disabled = d] :
                d \in in_place(state.disabled, enable(dis, cmd.select))}

\* filelock.FileLock(state_lock_path).__enter__ returns once no process holds
\* the lock
can_lock_any(lk) == TRUE
can_lock(lk) == lk = None

\* the end of the with block releases the lock, whether the block raised or not
exit_with_noerr(lk, p, raised) ==
    IF raised THEN lk ELSE IF lk = p THEN None ELSE lk
exit_with(lk, p, raised) == IF lk = p THEN None ELSE lk

\* if pre != post
changed_always(pre, post) == TRUE
changed(pre, post) == pre # post

\* try_signal_daemon(config): SIGUSR1 goes to the pid the pid file holds; what
\* reading the file or os.kill raises is logged
try_signal_daemon(pidp) ==
    IF pidp = None THEN [sent |-> FALSE, logged |-> "FileNotFoundError"]
    ELSE [sent |-> TRUE, logged |-> None]

UnchangedDaemon ==
    /\ UNCHANGED <<finish_ev, trigger_ev, pc, nlmsg_q, reloaded, trig, run>>
    /\ UNCHANGED <<gateways, disabled, priority, added, lastOp, query>>
    /\ UNCHANGED <<snapshot, pid_path>>
    /\ UNCHANGED tableVars

\* State.update, line 130: the process takes the lock of the state file
UpdateEnter ==
    \E p \in Procs, cmd \in CliCommands :
        /\ cli[p].pc = "idle"
        /\ can_lock(lock)
        /\ lock' = p
        /\ cli' = [cli EXCEPT ![p] = [pc |-> "read", cmd |-> cmd]]
        /\ UNCHANGED <<file, sigs, state_reload_ev, now>>
        /\ UnchangedDaemon

\* State.update, lines 131-132
UpdateRead ==
    \E p \in Procs :
        /\ cli[p].pc = "read"
        /\ \E state \in from_path(file) :
              cli' = [cli EXCEPT ![p] =
                        [pc |-> "body", cmd |-> cli[p].cmd, read |-> file,
                         state |-> state, pre |-> dumps(to_data(state))]]
        /\ UNCHANGED <<lock, file, sigs, state_reload_ev, now>>
        /\ UnchangedDaemon

\* State.update, line 133, and the body of the with block: the command, or
\* an exception raised in the body, which leaves the with block of line 130
UpdateBody ==
    \E p \in Procs :
        /\ cli[p].pc = "body"
        /\ \/ /\ cli' = [cli EXCEPT ![p] =
                           [pc |-> "raised", cmd |-> @.cmd, read |-> @.read,
                            pre |-> @.pre, wrote |-> FALSE, signalled |-> FALSE]]
              /\ lock' = exit_with(lock, p, TRUE)
              /\ UNCHANGED now
           \/ \E ts \in now..MaxTime :
                 /\ cli[p].cmd.op # "add" => ts = now
                 /\ now' = ts
                 /\ \E state \in mutate(cli[p].state, cli[p].cmd, ts) :
                       cli' = [cli EXCEPT ![p] =
                                 [pc |-> "compare", cmd |-> @.cmd, ts |-> ts,
                                  read |-> @.read, pre |-> @.pre,
                                  state |-> state]]
                 /\ UNCHANGED lock
        /\ UNCHANGED <<file, sigs, state_reload_ev>>
        /\ UnchangedDaemon

\* State.update, lines 134-136
UpdateWrite ==
    \E p \in Procs :
        LET post == dumps(to_data(cli[p].state))
            done == [pc |-> "done", cmd |-> cli[p].cmd, ts |-> cli[p].ts,
                     read |-> cli[p].read, pre |-> cli[p].pre, post |-> post,
                     wrote |-> FALSE, signalled |-> FALSE, sent |-> FALSE]
        IN  /\ cli[p].pc = "compare"
            /\ IF changed(cli[p].pre, post)
               THEN /\ file' = to_path(cli[p].state)
                    /\ cli' = [cli EXCEPT ![p] =
                                 [done EXCEPT !.pc = "signal", !.wrote = TRUE]]
                    /\ UNCHANGED lock
               ELSE /\ cli' = [cli EXCEPT ![p] = done]
                    /\ lock' = exit_with(lock, p, FALSE)
                    /\ UNCHANGED file
            /\ UNCHANGED <<sigs, state_reload_ev, now>>
            /\ UnchangedDaemon

\* State.update, line 137: try_signal_daemon, sigusr1_handler in the daemon,
\* and the end of the with block
UpdateSignal ==
    \E p \in Procs :
        LET r == try_signal_daemon(pid_path)
        IN  /\ cli[p].pc = "signal"
            /\ sigs' = [sigs EXCEPT !.usr1 = IF r.sent THEN @ + 1 ELSE @]
            /\ state_reload_ev' = IF r.sent THEN release(state_reload_ev)
                                             ELSE state_reload_ev
            /\ cli' = [cli EXCEPT ![p] =
                         [@ EXCEPT !.pc = "done", !.signalled = TRUE,
                                   !.sent = r.sent]]
            /\ lock' = exit_with(lock, p, FALSE)
            /\ UNCHANGED <<file, now>>
            /\ UnchangedDaemon

\* s.to_data() of the State at hand, its sets iterated in some order
ToData ==
    /\ \E g \in orders(gateways), d \in orders(disabled) :
          lastOp' = [op |-> "to_data",
                     data |-> to_data([gateways |-> g, disabled |-> d])]
    /\ UNCHANGED <<gateways, disabled, priority, now, added, query>>
    /\ UnchangedTables

\* State.from_data of that data
FromData ==
    /\ lastOp.op = "to_data"
    /\ lastOp' = [op |-> "from_data", data |-> lastOp.data,
                  state |-> from_data(lastOp.data)]
    /\ UNCHANGED <<gateways, disabled, priority, now, added, query>>
    /\ UnchangedTables

\* the States the round trip is taken of: Gateways of either family, disable
\* patterns with any of their fields None
InitJson ==
    /\ gateways \in StoredGateways
    /\ disabled \in {D \in SUBSET Selects : Cardinality(D) <= MaxDisabled}
    /\ priority = <<>>
    /\ now = 0
    /\ added = {}
    /\ lastOp = NoOp
    /\ query = NoQuery
    /\ InitTables
    /\ NotStarted

NextJson == ToData \/ FromData

SpecJson == InitJson /\ [][NextJson]_vars

\* the state files the commands start from
UpdateFiles ==
    { [gateways |-> {}, disabled |-> {}],
      [gateways |-> {G1, G2},
       disabled |-> {GatewaySelect(None, "em0", None)}] }

\* two command lines are about to run; a daemon runs and the pid file names
\* it, or none runs and there is no pid file
InitUpdate ==
    /\ file \in UpdateFiles
    /\ pid_path \in {"daemon", None}
    /\ gateways = file.gateways
    /\ disabled = file.disabled
    /\ priority = <<>>
    /\ now = 0
    /\ added = {}
    /\ lastOp = NoOp
    /\ query = NoQuery
    /\ InitTables
    /\ finish_ev = FALSE
    /\ trigger_ev = 0
    /\ state_reload_ev = 0
    /\ pc = [t \in Threads |-> "idle"]
    /\ nlmsg_q = <<>>
    /\ reloaded = [content |-> file, passed |-> FALSE]
    /\ sigs = [usr1 |-> 0, term |-> FALSE]
    /\ trig = [rel |-> 0, acq |-> 0]
    /\ run = NoRun
    /\ snapshot = NoSnapshot
    /\ lock = None
    /\ cli = [p \in Procs |-> [pc |-> "idle"]]

NextUpdate ==
    UpdateEnter \/ UpdateRead \/ UpdateBody \/ UpdateWrite \/ UpdateSignal

SpecUpdate == InitUpdate /\ [][NextUpdate]_vars

----------------------------------------------------------------------------
(* What the specification says of a pass, for the claims below *)

\* addr in network
Contains(net, addr) ==
    /\ net.af = addr.af
    /\ Len(net.prefix) <= Len(addr.bits)
    /\ SubSeq(addr.bits, 1, Len(net.prefix)) = net.prefix

\* the network of an interface address
NetworkOf(iface) == Net(iface.af, SubSeq(iface.bits, 1, iface.prefixlen))

\* the liveness test of the Selector: a link of the candidate's name is up and
\* an address or a route on it covers the candidate's address
LivenessTest(g) ==
    \E i \in DOMAIN links :
        /\ links[i].link.name = g.link
        /\ links[i].link.up
        /\ \/ \E a \in links[i].addrs : Contains(NetworkOf(a.address), g.addr)
           \/ \E r \in routes : r.link_index = i /\ Contains(r.dst, g.addr)

\* the first candidate of a ranked list that passes the liveness test
RECURSIVE FirstLive(_, _)
FirstLive(ranked, i) ==
    IF i > Len(ranked) THEN Null
    ELSE IF LivenessTest(ranked[i]) THEN ranked[i]
    ELSE FirstLive(ranked, i + 1)

DefaultDst(af) == IF af = "INET" THEN inet4_default_dst ELSE inet6_default_dst

\* the outcomes of the passes run on the NetTables and State of this state
Outcomes == {p[af] : p \in Range(passes), af \in AF}

\* the route commands of the decision table
IsDelete(c, r) ==
    /\ c.cmd = "delete_route"
    /\ c.args = <<"snl", fib, r.dst, r.gw, r.link_index>>
IsAdd(c, af, g) ==
    /\ c.cmd \in {"new_route", "add_route"}
    /\ \E i \in DOMAIN links :
          /\ links[i].link.name = g.link
          /\ c.args = <<"snl", fib, DefaultDst(af), g.addr, i>>

\* the index of the first priority pattern that matches g, 0 when none does
FirstPriority(g) ==
    IF \E i \in DOMAIN priority : matches(priority[i], g)
    THEN CHOOSE i \in DOMAIN priority :
            /\ matches(priority[i], g)
            /\ \A k \in 1..(i - 1) : ~ matches(priority[k], g)
    ELSE 0

Position(ranked, g) == CHOOSE i \in DOMAIN ranked : ranked[i] = g

\* the routes NetTables holds to the default destination of a family
CurrentRoutes(af) == {r \in routes : r.dst = DefaultDst(af)}

\* selection and default route of a family agree: the decision table's noop rows
InSync(af, desired) ==
    IF desired = Null THEN CurrentRoutes(af) = {}
    ELSE \E r \in CurrentRoutes(af) : r.gw = desired.addr

----------------------------------------------------------------------------
(* Claims *)

\* C1: after any sequence of State.add calls every (family, link, protocol)
\* triple has at most one Gateway in State.gateways, and that Gateway carries
\* the address of the most recent add for the triple.
C1_Uniqueness ==
    /\ \A g, h \in gateways : Triple(g) = Triple(h) => g = h
    /\ \A g \in gateways :
          [af |-> g.af, link |-> g.link, protocol |-> g.protocol,
           addr |-> g.addr] \in added
    /\ \A a \in added : \E g \in gateways : Triple(g) = Triple(a)

\* C1 witness: an add replaced a Gateway of the same triple that had another
\* address, next to a Gateway of another triple.
C1_Witness ==
    /\ lastOp.op = "add"
    /\ lastOp.replaced # {}
    /\ lastOp.addr \notin lastOp.replaced
    /\ Cardinality(gateways) = 2

\* C2 as claimed: the Selector returns a Gateway only if it passes the liveness
\* test, and returns none when no ranked candidate passes it.
C2_Claim ==
    \A o \in Outcomes :
        /\ o.default # Null => LivenessTest(o.default)
        /\ (\A i \in DOMAIN o.defaults : ~ LivenessTest(o.defaults[i]))
              => o.selected /\ o.default = Null

\* C3: a candidate matched by a pattern of state.disabled is in no ranked list
\* and is never the selection, whatever its timestamp or bucket.
C3_DisabledSuppressed ==
    \A o \in Outcomes : \A g \in gateways :
        (\E d \in disabled : matches(d, g))
            => g \notin Range(o.defaults) /\ o.default # g

\* C3 witness: the newest candidate is disabled by {link: em0} and the ranked
\* list of its family starts with an older candidate on em1.
C3_Witness ==
    /\ G1 \in gateways
    /\ disabled = {GatewaySelect(None, "em0", None)}
    /\ \E o \in Outcomes :
          /\ o.af = "INET"
          /\ Len(o.defaults) > 0
          /\ o.defaults[1].link = "em1"
          /\ o.defaults[1].ts < G1.ts

\* C4: after state.enable(d), d is not in state.disabled and every candidate
\* that d matches and no remaining disabled pattern matches is in the ranked
\* list of the next get_defaults call that asks for it.
C4_EnableLifts ==
    lastOp.op = "enable" =>
        /\ lastOp.select \notin disabled
        /\ query.done =>
              \A g \in gateways :
                  ( /\ matches(lastOp.select, g)
                    /\ matches(query.select, g)
                    /\ \A d \in disabled : ~ matches(d, g) )
                      => g \in Range(query.defaults)

\* C4 witness: enable(d) took d out of state.disabled, another pattern stays
\* disabled, and the next ranked list holds a candidate d matches.
C4_Witness ==
    /\ lastOp.op = "enable"
    /\ lastOp.select \in lastOp.before
    /\ disabled # {}
    /\ query.done
    /\ \E g \in Range(query.defaults) : matches(lastOp.select, g)

\* C5: when the first priority pattern matching g comes before the first one
\* matching h, g is ranked before h and h is not selected while g passes the
\* liveness test, whatever their timestamps.
C5_PriorityMonotone ==
    \A o \in Outcomes : \A g, h \in Range(o.defaults) :
        (FirstPriority(g) > 0 /\ FirstPriority(g) < FirstPriority(h))
            => /\ Position(o.defaults, g) < Position(o.defaults, h)
               /\ LivenessTest(g) => o.default # h

\* C5 witness: priority [static, dhcp] ranks the static candidate of
\* timestamp 1 before the dhcp candidate of timestamp 2.
C5_Witness ==
    /\ Len(priority) = 2
    /\ priority[1].protocol = "static"
    /\ \E o \in Outcomes : o.defaults = <<G2, G1>>


\* C6 as claimed: of two passes in a row with no change in between, the first
\* issues exactly one kernel command for a family, or none when the family is
\* in sync, and the second issues none.
C6_Claim ==
    Len(passes) >= 2 =>
        \A af \in AF :
            LET desired == FirstLive(passes[1][af].defaults, 1)
            IN  /\ Len(passes[1][af].cmds) = (IF InSync(af, desired) THEN 0 ELSE 1)
                /\ Len(passes[2][af].cmds) = 0

\* C7 as claimed: with no mutation from outside, after two passes the default
\* route NetTables shows for each family is absent when the selection is none
\* and has the selected address as its gateway otherwise.
C7_Claim ==
    Len(passes) >= 2 =>
        \A af \in AF :
            InSync(af, FirstLive(passes[Len(passes)][af].defaults, 1))

\* C8 as claimed: when the selection is a Gateway and there is no default
\* route, the pass issues exactly one command, add_route(fib, D_F,
\* desired.address, index_of(desired.link_name)), and no delete.
C8_Claim ==
    \A o \in Outcomes :
        LET desired == FirstLive(o.defaults, 1)
        IN  (desired # Null /\ CurrentRoutes(o.af) = {})
                => Len(o.cmds) = 1 /\ IsAdd(o.cmds[1], o.af, desired)

\* C9 as claimed: when the selection is a Gateway and the default route has
\* another gateway, the pass issues delete_route for the current route and
\* then add_route for the selection, in that order.
C9_Claim ==
    \A o \in Outcomes : \A r \in CurrentRoutes(o.af) :
        LET desired == FirstLive(o.defaults, 1)
        IN  (desired # Null /\ CurrentRoutes(o.af) = {r} /\ r.gw # desired.addr)
                => /\ Len(o.cmds) = 2
                   /\ IsDelete(o.cmds[1], r)
                   /\ IsAdd(o.cmds[2], o.af, desired)

\* C10 as claimed: when the selection is none and a default route exists, the
\* pass issues exactly one command, delete_route(fib, current.destination,
\* current.gateway, current.link_index), and no add.
C10_Claim ==
    \A o \in Outcomes : \A r \in CurrentRoutes(o.af) :
        (FirstLive(o.defaults, 1) = Null /\ CurrentRoutes(o.af) = {r})
            => Len(o.cmds) = 1 /\ IsDelete(o.cmds[1], r)

\* C11: a pass issues no kernel command for a family whose selection and
\* default route are both none, or whose default route has the selected
\* gateway's address as its gateway.
C11_NoopInSync ==
    \A o \in Outcomes :
        /\ InSync(o.af, FirstLive(o.defaults, 1)) => o.cmds = <<>>
        /\ (o.selected /\ o.default = Null /\ o.current = Null) => o.cmds = <<>>
        /\ (o.selected /\ o.default # Null /\ o.current # Null
              /\ o.current.gw = o.default.addr) => o.cmds = <<>>

\* C11 witness: NetTables holds a link and no default route, the family has no
\* candidate, and the pass ran to its end (daemon.py:72) with no command;
\* the other family has a live candidate whose address is the gateway of the
\* default route.
C11_Witness ==
    \E p \in Range(passes) :
        /\ p["INET6"].selected /\ p["INET6"].raised = None
        /\ p["INET6"].default = Null /\ p["INET6"].current = Null
        /\ p["INET6"].cmds = <<>>
        /\ FirstLive(p["INET"].defaults, 1) # Null
        /\ InSync("INET", FirstLive(p["INET"].defaults, 1))
        /\ p["INET"].cmds = <<>>

\* C12 as claimed: on DELLINK for em0 (index 1, carrying the default route
\* through the selected gateway 10.0.0.1), with a live candidate
\* 10.0.1.1 on em1 (index 2), NetTables drops em0 and its routes and the next
\* pass issues delete_route for
\* (0.0.0.0/0, 10.0.0.1, 1), then add_route for (0.0.0.0/0, 10.0.1.1, 2).
C12_Claim ==
    ( /\ lastOp.op = "del_link"
      /\ lastOp.link.name = "em0" /\ lastOp.link.index = 1
      /\ lastOp.known
      /\ Route(inet4_default_dst, A1, 1) \in lastOp.removed
      /\ CurrentRoutes("INET") = {}
      /\ {G1, G3} \subseteq gateways
      /\ \A g \in {G1, G3} : \A d \in disabled : ~ matches(d, g)
      /\ LivenessTest(G3) )
        => /\ 1 \notin DOMAIN links
           /\ \A r \in routes : r.link_index # 1
           /\ passes # <<>> =>
                 /\ Len(passes[1]["INET"].cmds) = 2
                 /\ IsDelete(passes[1]["INET"].cmds[1],
                             Route(inet4_default_dst, A1, 1))
                 /\ IsAdd(passes[1]["INET"].cmds[2], "INET", G3)

\* C13 as claimed: both families are attempted in every pass, whatever the
\* other raised; when INET has a live candidate and INET6 has none, the pass
\* leaves INET6 without a default route (none there, or its delete issued)
\* and INET with its default programmed (in sync, or its add issued).
C13_Claim ==
    \A p \in Range(passes) :
        LET d4 == FirstLive(p["INET"].defaults, 1)
            d6 == FirstLive(p["INET6"].defaults, 1)
        IN  /\ DOMAIN p = AF
            /\ (d4 # Null /\ d6 = Null) =>
                  /\ \/ InSync("INET6", Null)
                     \/ \E i \in DOMAIN p["INET6"].cmds :
                           p["INET6"].cmds[i].cmd = "delete_route"
                  /\ \/ InSync("INET", d4)
                     \/ \E i \in DOMAIN p["INET"].cmds :
                           IsAdd(p["INET"].cmds[i], "INET", d4)

\* C14 as claimed: in the delete-then-add case the add_route for the selected
\* gateway is issued in the same pass, whether delete_route raised or not.
C14_Claim ==
    \A o \in Outcomes : \A r \in CurrentRoutes(o.af) :
        LET desired == FirstLive(o.defaults, 1)
        IN  (desired # Null /\ CurrentRoutes(o.af) = {r} /\ r.gw # desired.addr)
                => \E i \in DOMAIN o.cmds : IsAdd(o.cmds[i], o.af, desired)

\* every thread of the daemon has returned or raised
AllDone == \A t \in Threads : pc[t] \in {"done", "raised"}

\* a thread goes from the head of its loop into another wait
EntersWait(t) == pc[t] = "loop" /\ pc'[t] \in {"acquire", "read", "get"}

\* C15: trigger_ev is a binary, coalescing wake-up: a release while it is
\* released changes nothing, and however many releases came since the last
\* acquire, at most one acquire succeeds (one pass) until the next release.
C15_Coalescing ==
    /\ trigger_ev \in {0, 1}
    /\ state_reload_ev \in {0, 1}
    /\ trig.acq <= 1
    /\ trigger_ev = 1 <=> (trig.rel >= 1 /\ trig.acq = 0)

\* C15 witness: two or more releases came before one acquire succeeded, the
\* pass ran, and monitor waits again on a trigger_ev that is not released.
C15_Witness ==
    /\ trig.rel = 2
    /\ trig.acq = 1
    /\ run.ran
    /\ pc["monitor"] = "acquire"
    /\ trigger_ev = 0

\* C16: once a thread has returned or raised, finish_ev gets set and every
\* thread returns or raises; with finish_ev set no thread goes into another
\* wait.
C16_ShutdownDrains ==
    /\ (\E t \in Threads : pc[t] \in {"done", "raised"}) ~> (finish_ev /\ AllDone)
    /\ [][finish_ev => \A t \in Threads : ~ EntersWait(t)]_vars

\* C16 witness: no signal came, nlmsg_handler raised, and every thread has
\* ended with finish_ev set.
C16_Witness ==
    /\ ~ sigs.term
    /\ pc["nlmsg_handler"] = "raised"
    /\ finish_ev
    /\ AllDone

\* C17: after SIGTERM or SIGINT has set finish_ev every thread ends: none
\* waits without a timeout.
C17_FinishStops == sigs.term ~> AllDone

\* C17 witness: the signal came while state_reload_handler and monitor had
\* been through a wait; every thread has returned, none raised.
C17_Witness ==
    /\ sigs.term
    /\ \A t \in Threads : pc[t] = "done"
    /\ run.ran

\* C18 as claimed: on SIGUSR1 state_reload_handler reloads the State and only
\* then releases trigger_ev, a pass reads the State that was loaded last, and
\* unless a signal ends the daemon, a state update followed by SIGUSR1 leads
\* to a reload and the reload to a pass.
C18_Claim ==
    /\ [](pc["state_reload_handler"] = "release" =>
            [gateways |-> gateways, disabled |-> disabled] = reloaded.content)
    /\ [][pc["monitor"] = "pass" /\ pc'["monitor"] = "loop"
            => run'.state = reloaded.content]_vars
    /\ (state_reload_ev = 1) ~>
          (sigs.term \/ pc["state_reload_handler"] = "release")
    /\ (pc["state_reload_handler"] = "release") ~> (sigs.term \/ reloaded.passed)

C20_Claim == run.ran => run.dumped = 3

\* C21 as claimed: the messages monitor_nl received are applied to NetTables
\* in the order they came: a step that takes from nlmsg_q takes its head and
\* applies that message, and none is skipped: unless a signal ends the daemon,
\* a received RTM_DELROUTE of a route NetTables holds leads to NetTables
\* without that route.
C21_Claim ==
    /\ [][(nlmsg_q # <<>> /\ nlmsg_q' = Tail(nlmsg_q)) =>
            /\ links' = apply_nlmsg(links, routes, Head(nlmsg_q)).links
            /\ routes' = apply_nlmsg(links, routes, Head(nlmsg_q)).routes]_vars
    /\ \A m \in KernelEvents :
          (nlmsg_q # <<>> /\ Head(nlmsg_q) = m /\ m.nlmsg \in routes)
              ~> (sigs.term \/ m.nlmsg \notin routes)

\* C22: del_link(link) removes the link of that index and every route whose
\* link_index is that index, and leaves every other link and every route of
\* another index as it was; after it no route of NetTables has that index.
C22_DelLinkCascade ==
    [][lastOp'.op = "del_link" =>
         LET index == lastOp'.link.index
         IN  /\ index \notin DOMAIN links'
             /\ \A r \in routes' : r.link_index # index
             /\ DOMAIN links' = DOMAIN links \ {index}
             /\ \A i \in DOMAIN links' : links'[i] = links[i]
             /\ routes' = {r \in routes : r.link_index # index}]_vars

\* C22 witness: del_link removed a link NetTables held and a route through
\* it, and NetTables still holds another link and a route through that one.
C22_Witness ==
    /\ lastOp.op = "del_link"
    /\ lastOp.known
    /\ lastOp.removed # {}
    /\ DOMAIN links # {}
    /\ \E r \in routes : r.link_index \in DOMAIN links

\* the LinkAddress records an address query over NetTables can return: those
\* in the addrs of the links it holds
AddrsHeld(lnks) == UNION {lnks[i].addrs : i \in DOMAIN lnks}

\* C23 as claimed: the addresses of a removed link are retained: after
\* del_link the LinkAddress records of that link_index that NetTables held
\* are still returned by address queries.
C23_Claim ==
    [][lastOp'.op = "del_link" =>
         {a \in AddrsHeld(links) : a.link_index = lastOp'.link.index}
             \subseteq AddrsHeld(links')]_vars

\* C24 as claimed: an address whose link_index names no link NetTables holds
\* is dropped: the dump of an address leaves NetTables as it was or with that
\* address added, raises nothing, and maintain_nettables goes on to the dump
\* of routes without setting finish_ev.
C24_Claim ==
    [][(pc["maintain_nettables"] = "dump_addrs"
            /\ pc'["maintain_nettables"] # "dump_addrs") =>
         /\ pc'["maintain_nettables"] = "dump_routes"
         /\ finish_ev' = finish_ev
         /\ DOMAIN links' = DOMAIN links]_vars

\* C30 as claimed: a message of another kind than the six is dropped:
\* monitor_nl never ends by raising, and reading a message leaves NetTables
\* as it was.
C30_Claim ==
    /\ [](pc["monitor_nl"] # "raised")
    /\ [][pc["monitor_nl"] = "read" /\ pc'["monitor_nl"] # "read"
            => links' = links /\ routes' = routes]_vars

\* C25 as claimed: every NetTables query returns a snapshot of copies: what a
\* returned result holds, the address set of a returned link included, stays
\* what it was when the query returned, whatever is applied to NetTables
\* afterwards.
C25_Claim ==
    snapshot.taken =>
        /\ snapshot.query = "get_routes" => snapshot.result = snapshot.returned
        /\ snapshot.query = "get_links" =>
              \A i \in DOMAIN snapshot.returned :
                  /\ snapshot.result[i].link = snapshot.returned[i].link
                  /\ snapshot.result[i].addrs = snapshot.returned[i].addrs

\* the order of two routes to the same destination: by gateway, then by link
SeqLess(a, b) ==
    \E i \in DOMAIN a :
        /\ a[i] < b[i]
        /\ \A j \in 1..(i - 1) : a[j] = b[j]
RouteBefore(r, q) ==
    \/ SeqLess(r.gw.bits, q.gw.bits)
    \/ r.gw = q.gw /\ r.link_index < q.link_index
LexFirst(rts) == CHOOSE r \in rts : \A q \in rts \ {r} : RouteBefore(r, q)

\* C29 as claimed: when NetTables holds more than one route to the default
\* destination of the family, the pass takes the lexicographically first of
\* them as the current default route of its decision.
C29_Claim ==
    \A o \in Outcomes :
        (o.selected /\ Cardinality(CurrentRoutes(o.af)) > 1)
            => o.current = LexFirst(CurrentRoutes(o.af))

\* what the command of a finished update makes of the file content it read
Effect(c) ==
    IF c.pc = "raised" THEN c.read
    ELSE IF c.cmd.op = "add"
    THEN [c.read EXCEPT !.gateways = add(@, c.cmd.af, c.cmd.link,
                                         c.cmd.protocol, c.cmd.addr, c.ts)]
    ELSE IF c.cmd.op = "remove"
    THEN [c.read EXCEPT !.gateways = remove(@, c.cmd.select)]
    ELSE IF c.cmd.op = "disable"
    THEN [c.read EXCEPT !.disabled = disable(@, c.cmd.select)]
    ELSE [c.read EXCEPT !.disabled = enable(@, c.cmd.select)]

\* the command takes nothing out of the sets it read and puts nothing in
Untouched(c) ==
    \/ c.cmd.op = "remove"
          /\ \A g \in c.read.gateways : ~ matches(c.cmd.select, g)
    \/ c.cmd.op = "enable"
          /\ \A d \in c.read.disabled : ~ matches(c.cmd.select, d)
    \/ c.cmd.op = "disable" /\ c.cmd.select \in c.read.disabled

InUpdate(p) == cli[p].pc \in {"read", "body", "compare", "signal"}
Finished(p) == cli[p].pc \in {"done", "raised"}

\* C26: State.update writes the state file and calls try_signal_daemon exactly
\* when the serialization after the body differs from the one before it; the
\* signal reaches the daemon the pid file names; a command that changes the
\* content is written, and a command that leaves the sets untouched (disable
\* of a disabled pattern, remove or enable without a match) is neither
\* written nor signalled.
C26_WriteIffChanged ==
    \A p \in Procs :
        cli[p].pc = "done" =>
            /\ cli[p].wrote <=> cli[p].pre # cli[p].post
            /\ cli[p].signalled <=> cli[p].wrote
            /\ cli[p].sent <=> (cli[p].wrote /\ pid_path = "daemon")
            /\ Effect(cli[p]) # cli[p].read => cli[p].wrote
            /\ Untouched(cli[p]) => ~ cli[p].wrote /\ ~ cli[p].signalled

\* C26 witness: one update changed the State, so it wrote the file and the
\* signal went to the daemon; the other left the sets untouched and neither
\* wrote nor signalled.
C26_Witness ==
    \E p, q \in Procs :
        /\ cli[p].pc = "done" /\ cli[q].pc = "done"
        /\ cli[p].wrote /\ cli[p].sent /\ sigs.usr1 = 1
        /\ Untouched(cli[q]) /\ ~ cli[q].wrote
        /\ cli[q].read.gateways # {}

\* C27: the lock of the state file covers the whole read-mutate-write: a
\* process inside State.update holds it, so no other reads the file
\* meanwhile, and when both updates have ended the file is what the two
\* commands make of it one after the other, in one of the two orders.
C27_Serialized ==
    /\ \A p \in Procs : InUpdate(p) => lock = p
    /\ (\A p \in Procs : Finished(p)) =>
          \E p, q \in Procs :
              /\ p # q
              /\ cli[q].read = Effect(cli[p])
              /\ file = Effect(cli[q])

\* C27 witness: both updates ended and both wrote; the second read what the
\* first had written and the file holds the effect of both.
C27_Witness ==
    \E p, q \in Procs :
        /\ p # q
        /\ cli[p].pc = "done" /\ cli[q].pc = "done"
        /\ cli[p].wrote /\ cli[q].wrote
        /\ cli[q].read = Effect(cli[p])
        /\ cli[q].read # cli[p].read
        /\ file = Effect(cli[q])
        /\ file # cli[q].read

\* C28: the lock is released on every way out of State.update: when the body
\* raises, that step releases the lock and leaves the file and the signals as
\* they were, and the lock is never held by a process that is not inside
\* State.update, so the next update can take it.
C28_ReleasedOnRaise ==
    /\ [][\A p \in Procs :
            (cli[p].pc = "body" /\ cli'[p].pc = "raised") =>
                lock' = None /\ file' = file /\ sigs' = sigs]_vars
    /\ [](\A p \in Procs : lock = p => InUpdate(p))

\* C28 witness: the body of one update raised, and the other process has
\* taken the lock after that.
C28_Witness ==
    \E p, q \in Procs :
        /\ cli[p].pc = "raised"
        /\ cli[q].pc = "read"
        /\ lock = q

\* C31: the State comes back from its data unchanged: from_data(to_data(s))
\* has the Gateway set and the disabled set of s, in whatever order to_data
\* listed them.
C31_RoundTrip ==
    lastOp.op = "from_data" =>
        /\ lastOp.state.gateways = gateways
        /\ lastOp.state.disabled = disabled

\* C31 witness: the round trip was taken of a State with Gateways of both
\* families and two disable patterns, one with every field None.
C31_Witness ==
    /\ lastOp.op = "from_data"
    /\ {g.af : g \in gateways} = AF
    /\ GatewaySelect(None, None, None) \in disabled
    /\ Cardinality(disabled) = 2
    /\ Len(lastOp.data.gateways) = 2

\* the bucket the specification puts g in: the first priority pattern that
\* matches it, the one after the last pattern when none does
BucketIndex(g) ==
    IF FirstPriority(g) = 0 THEN Len(priority) + 1 ELSE FirstPriority(g)

\* the enabled candidates a get_defaults(select) call is about
Enabled(select) ==
    {g \in gateways : matches(select, g) /\ \A d \in disabled : ~ matches(d, g)}

\* C32: the ranked list holds every enabled candidate the call asks for
\* exactly once, and it is the buckets one after the other: a candidate
\* whose first matching priority pattern comes earlier stands before one
\* whose first match comes later, and those no pattern matches stand last.
C32_Buckets ==
    query.done =>
        /\ Range(query.defaults) = Enabled(query.select)
        /\ Len(query.defaults) = Cardinality(Enabled(query.select))
        /\ \A i, j \in DOMAIN query.defaults :
              i < j => BucketIndex(query.defaults[i]) <= BucketIndex(query.defaults[j])

\* C32 witness: with priority [dhcp, em1] the list holds a candidate that
\* both patterns match, in the bucket of the first, before a candidate no
\* pattern matches, in the final bucket.
C32_Witness ==
    /\ query.done
    /\ Len(priority) = 2
    /\ Len(query.defaults) = 2
    /\ matches(priority[1], query.defaults[1])
    /\ matches(priority[2], query.defaults[1])
    /\ BucketIndex(query.defaults[2]) = 3

StrRank(s) ==
    IF s \in {"dhcp", "em0"} THEN 1 ELSE 2

\* (link_name, protocol, address bytes) of g comes before that of h
TieBefore(g, h) ==
    \/ StrRank(g.link) < StrRank(h.link)
    \/ g.link = h.link /\ StrRank(g.protocol) < StrRank(h.protocol)
    \/ g.link = h.link /\ g.protocol = h.protocol
          /\ SeqLess(g.addr.bits, h.addr.bits)

\* C34 as claimed: the ranked list is a function of the State and the
\* priority: two candidates of one bucket with the same timestamp stand in
\* the order of (link_name, protocol, address bytes), whatever the iteration
\* order of the gateway set.
C34_Claim ==
    query.done =>
        \A i, j \in DOMAIN query.defaults :
            ( /\ i < j
              /\ BucketIndex(query.defaults[i]) = BucketIndex(query.defaults[j])
              /\ query.defaults[i].ts = query.defaults[j].ts )
                => TieBefore(query.defaults[i], query.defaults[j])

\* no link of the candidate's link name is known when the name is resolved
Unresolvable(g) == \A i \in DOMAIN links : links[i].link.name # g.link

\* C35 as claimed: a candidate whose link name does not resolve counts as not
\* selectable and the Selector moves on: when the ranked list holds such a
\* candidate and also one that passes the liveness test, the pass of the
\* family is not aborted and selects the first live candidate.
C35_Claim ==
    \A o \in Outcomes :
        ( /\ \E i \in DOMAIN o.defaults : Unresolvable(o.defaults[i])
          /\ FirstLive(o.defaults, 1) # Null )
            => /\ o.raised = None
               /\ o.default = FirstLive(o.defaults, 1)

\* C36 as claimed: messages that arrive during the dump are kept back until
\* the dump stands in NetTables as the baseline and are replayed after it:
\* nlmsg_handler applies nothing before the dump is complete, and, unless a
\* signal ends the daemon, a message received during the dump leads to a
\* complete dump with that message taken from nlmsg_q and applied.
C36_Claim ==
    /\ [](DumpedTables < 3 => pc["nlmsg_handler"] = "idle")
    /\ (nlmsg_q # <<>> /\ DumpedTables < 3)
          ~> (sigs.term \/ (DumpedTables = 3 /\ nlmsg_q = <<>>))

\* C37 as claimed: a route record that cannot be turned into a Route (one
\* with several next hops) is dropped: the dump of a route never ends
\* maintain_nettables by raising; it goes on to release the trigger, finish_ev
\* stays as it was and NetTables keeps its links.
C37_Claim ==
    [][(pc["maintain_nettables"] = "dump_routes"
            /\ pc'["maintain_nettables"] # "dump_routes") =>
         /\ pc'["maintain_nettables"] = "release"
         /\ finish_ev' = finish_ev
         /\ links' = links]_vars

\* C38: a release of trigger_ev that comes during a pass is not lost: it
\* stays pending until monitor's acquire takes it, monitor's acquire of a
\* pending release succeeds and starts a pass, monitor goes from the head of
\* its loop to that acquire unless finish_ev is set, and the pass that follows
\* reads the State and the NetTables as they are when it runs, after the
\* release.
C38_ReleaseKept ==
    [][/\ (trigger_ev = 1 /\ trigger_ev' = 0) =>
              (pc["monitor"] = "acquire" /\ pc'["monitor"] = "pass")
       /\ (pc["monitor"] = "pass" /\ trigger_ev = 1 /\ pc'["monitor"] # "pass") =>
              (pc'["monitor"] = "loop" /\ trigger_ev' = 1)
       /\ (pc["monitor"] = "loop" /\ pc'["monitor"] # "loop" /\ ~ finish_ev) =>
              pc'["monitor"] = "acquire"
       /\ (pc["monitor"] = "acquire" /\ trigger_ev = 1
               /\ pc'["monitor"] # "acquire") =>
              (pc'["monitor"] = "pass" /\ trigger_ev' = 0)
       /\ (pc["monitor"] = "pass" /\ pc'["monitor"] # "pass") =>
              /\ run'.ran
              /\ run'.state = [gateways |-> gateways, disabled |-> disabled]
              /\ run'.dumped = DumpedTables
              /\ \E d4 \in get_defaults(gateways, disabled, priority,
                                        GatewaySelect("INET", None, None)),
                    d6 \in get_defaults(gateways, disabled, priority,
                                        GatewaySelect("INET6", None, None)) :
                     /\ run'.INET = normalize_default("INET", inet4_default_dst,
                                                      d4, links, routes)
                     /\ run'.INET6 = normalize_default("INET6", inet6_default_dst,
                                                       d6, links, routes)]_vars

\* C38 witness: monitor is in a pass, and a release has come since the
\* acquire that started it; finish_ev is not set.
C38_Witness ==
    /\ pc["monitor"] = "pass"
    /\ trigger_ev = 1
    /\ trig.acq = 0
    /\ ~ finish_ev

\* a pass has run, a release has come since, and monitor has acquired it and
\* is in a further pass
FurtherPass ==
    /\ run.ran
    /\ pc["monitor"] = "pass"
    /\ trig.acq = 1
    /\ ~ finish_ev

\* C39: every delete_route, new_route and add_route call a pass makes for a
\* family names the default destination of that family (0.0.0.0/0 for
\* AF_INET, ::/0 for AF_INET6), and so does every command that goes to the
\* kernel: no route of another destination is ever named.
C39_DefaultDstOnly ==
    \A o \in Outcomes :
        /\ \A i \in DOMAIN o.calls : o.calls[i].args[3] = DefaultDst(o.af)
        /\ \A i \in DOMAIN o.cmds : o.cmds[i].args[3] = DefaultDst(o.af)

\* C39 witness: NetTables holds a route of another destination beside the
\* default route of the family, and the pass made its delete_route call,
\* naming the default route.
C39_Witness ==
    \E o \in Outcomes :
        /\ o.current # Null
        /\ o.current \in routes
        /\ \E r \in routes : r.dst.af = o.af /\ r.dst # DefaultDst(o.af)
        /\ Len(o.calls) = 1
        /\ o.calls[1].cmd = "delete_route"
        /\ o.calls[1].args[3] = o.current.dst

\* C40: new_link for an index NetTables holds replaces the Link of that index
\* and nothing else: the index keeps its addresses, every other index its
\* entry, and the routes stay as they were; for an index it does not hold it
\* adds the link with no address.  links holds one entry per index, the entry
\* of index i holding a Link of index i.
C40_UpsertLink ==
    /\ \A i \in DOMAIN links : links[i].link.index = i
    /\ lastOp.op = "new_link" =>
          LET i == lastOp.link.index
          IN  /\ routes = lastOp.routes
              /\ DOMAIN links = DOMAIN lastOp.links \cup {i}
              /\ \A j \in DOMAIN links \ {i} : links[j] = lastOp.links[j]
              /\ links[i].link = lastOp.link
              /\ links[i].addrs =
                    IF i \in DOMAIN lastOp.links THEN lastOp.links[i].addrs
                    ELSE {}

\* C40 witness: NetTables held link 1 with an address and a route through it,
\* and another link; new_link for index 1 came with another up flag, and link
\* 1 has the new Link, its address and its route.
C40_Witness ==
    /\ lastOp.op = "new_link"
    /\ lastOp.link.index = 1
    /\ DOMAIN lastOp.links = {1, 2}
    /\ lastOp.links[1].link # lastOp.link
    /\ lastOp.links[1].addrs # {}
    /\ \E r \in routes : r.link_index = 1
    /\ links[1] = LinkAddresses(lastOp.link, lastOp.links[1].addrs)

====
